---- MODULE Spec2Model ----
(***************************************************************************)
(* Model of the metalwork decode pipeline: the COBS framer                 *)
(* (src/cobs/src/lib.rs), the OrbFlow encoder/decoder                      *)
(* (src/oflow/src/lib.rs) and the ITM decoder (src/itm/src/lib.rs).        *)
(*                                                                         *)
(* Words wider than TLC's integers (u32, u64) are kept as the set of their *)
(* set bit positions: OR is union, AND is intersection, a left shift adds  *)
(* to every position and drops what leaves the word.  Bytes and counters   *)
(* are integers; u8 arithmetic keeps its width and reports overflow, which *)
(* panics when the build has overflow checks (debug) and wraps otherwise.  *)
(***************************************************************************)
EXTENDS Integers, Sequences, FiniteSets, Bags, TLC

VARIABLES
    overflow_checks, \* build profile: TRUE = overflow checks on (debug), FALSE = release
    panicked,        \* a panic has unwound out of the library
    cobs,            \* the Cobs decoder object
    op,              \* the caller's output buffer (Vec<u8>) passed to get_byte
    cap,             \* capacity of the caller's output buffer
    cobs_ret,        \* last COBS call, its argument and its result
    vec_out,         \* Vec<u8> built by the last get_frame_as_vec call
    ip,              \* payload handed to cobs_encode
    prefix,          \* bytes on the wire ahead of the encoded packet
    wire,            \* bytes on the wire not yet fed to the decoder
    enc,             \* cobs_encode in progress: input left, output Vec e, index d, result
    oflow,           \* the OFlow object (statistics)
    of_in,           \* stream number and payload given to encode_to_vec
    of_wire,         \* result of encode_to_vec
    of_res,          \* result of decode
    itm,             \* the ITMDecoder object (state and ITMInternal)
    itm_iter,        \* the caller's byte iterator, bytes not yet consumed
    itm_chunk,       \* the byte sequence the current iterator was created over
    itm_res,         \* result of the last get_frame call
    itm_frames,      \* frames returned since the current iterator was created
    itm_syncs,       \* number of Sync frames returned so far
    itm_supplied,    \* number of iterators the caller has created
    itm_recent,      \* the last six bytes the decoder has consumed
    of_pkt,          \* the packet given to the last decode call
    of_idx,          \* the last indexed access to the decoded frame and its result
    cs,              \* caller of Cobs::get_frame: its iterator, bytes fed, packets received
    its,             \* caller of ITMDecoder::get_frame: bytes to come, bytes fed, frames received
    col,             \* the collector: mode, stream number, callbacks made, OrbFlow frames
                     \* decoded in the last turn of its loop, return value
    url              \* the arguments of calculate_url and the string it returned

vars == <<overflow_checks, panicked, cobs, op, cap, cobs_ret, vec_out, ip, prefix, wire, enc,
          oflow, of_in, of_wire, of_res,
          itm, itm_iter, itm_chunk, itm_res, itm_frames, itm_syncs, itm_supplied,
          itm_recent, of_pkt, of_idx, cs, its, col, url>>

cobs_vars == <<cobs, op, cap, cobs_ret, vec_out, ip, prefix, wire, enc, cs>>

oflow_vars == <<oflow, of_in, of_wire, of_res, of_pkt, of_idx>>

itm_vars == <<itm, itm_iter, itm_chunk, itm_res, itm_frames, itm_syncs, itm_supplied,
          itm_recent, its>>

(***************************************************************************)
(* Bounds of the model                                                     *)
(***************************************************************************)
\* bytes fed to the COBS decoder in the free-stream specification
MaxCobsIn == 5

\* largest capacity of the caller's COBS output buffer
MaxCap == 2

\* longest iterator handed to get_frame_as_vec
MaxIter == 2

\* longest short payload given to the encoders
MaxLen == 3

\* iterators (chunks) handed to the ITM decoder
MaxChunks == 3

\* largest index tried on a decoded frame
MaxIndex == 4

\* packets handed to OFlow::decode on one OFlow object
MaxDecodes == 2

\* reads of the stream made by one collect_data call
MaxReads == 3

(***************************************************************************)
(* Integer helpers                                                         *)
(***************************************************************************)
RECURSIVE Pow2(_)
Pow2(n) == IF n = 0 THEN 1 ELSE 2 * Pow2(n - 1)

\* bit k of the byte x
BitAt(x, k) == (x \div Pow2(k)) % 2

\* a byte as the set of its set bit positions
Bits(x) == {k \in 0..7 : BitAt(x, k) = 1}

\* left shift of a w-bit word by n
Shl(s, n, w) == {b + n : b \in s} \cap (0..(w - 1))

\* u8 subtraction: wrapped value and overflow indication
Sub8(a, b) == [v |-> (a - b + 256) % 256, of |-> a < b]

\* u8 addition: wrapped value and overflow indication
Add8(a, b) == [v |-> (a + b) % 256, of |-> a + b > 255]

SeqSum(s) == BagCardinality([k \in {j \in DOMAIN s : s[j] > 0} |-> s[k]])

\* n copies of b
Rep(b, n) == [k \in 1..n |-> b]

\* the last n elements of s
LastN(s, n) == IF Len(s) <= n THEN s ELSE SubSeq(s, Len(s) - n + 1, Len(s))

\* all sequences over S of length lo..hi
SeqsOf(S, lo, hi) == UNION {[1..n -> S] : n \in lo..hi}

(***************************************************************************)
(* COBS                                                                    *)
(***************************************************************************)
DEFAULT_SENTINEL == 0

MAX_PACKET_LEN == 8192

MAX_ENC_PACKET_LEN == 1 + MAX_PACKET_LEN + (MAX_PACKET_LEN \div 254) + 1

\* Cobs::new
CobsNew == [state |-> "Idle", sentinel |-> DEFAULT_SENTINEL, rxc |-> 0, maxcount |-> FALSE,
            inbytes |-> 0, goodbytes |-> 0, badbytes |-> 0, packets |-> 0, toolong |-> 0]

\* Cobs::process_token: the token's action, the value to store and the new decoder
process_token(self, tok) ==
    CASE self.state = "Idle" ->
           IF tok # self.sentinel
           THEN [self |-> [self EXCEPT !.rxc = tok, !.maxcount = (tok = 255), !.state = "Rxing"],
                 val |-> 0, action |-> "NoAction", panic |-> FALSE]
           ELSE [self |-> self, val |-> 0, action |-> "NoAction", panic |-> FALSE]
      [] self.state = "Rxing" ->
           LET d  == Sub8(self.rxc, 1)
               s1 == [self EXCEPT !.rxc = d.v]
           IN  IF d.of /\ overflow_checks
               THEN [self |-> self, val |-> 0, action |-> "NoAction", panic |-> TRUE]
               ELSE IF 0 = s1.rxc
               THEN IF s1.sentinel = tok
                    THEN [self |-> [s1 EXCEPT !.state = "Idle"],
                          val |-> tok, action |-> "Complete", panic |-> FALSE]
                    ELSE [self |-> [s1 EXCEPT !.rxc = tok, !.maxcount = (tok = 255)],
                          val |-> s1.sentinel,
                          action |-> IF ~s1.maxcount THEN "Store" ELSE "NoAction",
                          panic |-> FALSE]
               ELSE IF s1.sentinel = tok
                    THEN [self |-> [s1 EXCEPT !.state = "Flushing"],
                          val |-> tok, action |-> "Error", panic |-> FALSE]
                    ELSE [self |-> s1, val |-> tok, action |-> "Store", panic |-> FALSE]
      [] self.state = "Flushing" ->
           IF self.sentinel # tok
           THEN [self |-> self, val |-> tok, action |-> "Flushing", panic |-> FALSE]
           ELSE [self |-> [self EXCEPT !.state = "Idle"],
                 val |-> self.sentinel, action |-> "NoAction", panic |-> FALSE]

\* get_byte without its count of the incoming byte
get_byte_NoInCount(self, c, b, bcap) ==
    LET r == process_token(self, c)
    IN  IF r.panic THEN [self |-> self, op |-> b, ret |-> "Panic"]
        ELSE CASE r.action = "Error" ->
                    [self |-> [r.self EXCEPT !.badbytes = @ + Len(b)], op |-> <<>>, ret |-> "Ongoing"]
               [] r.action = "Flushing" ->
                    [self |-> [r.self EXCEPT !.badbytes = @ + 1], op |-> b, ret |-> "Ongoing"]
               [] r.action = "NoAction" ->
                    [self |-> r.self, op |-> b, ret |-> "Ongoing"]
               [] r.action = "Store" ->
                    IF Len(b) < bcap
                    THEN [self |-> r.self, op |-> Append(b, r.val), ret |-> "Ongoing"]
                    ELSE [self |-> [r.self EXCEPT !.badbytes = @ + Len(b), !.toolong = @ + 1,
                                                  !.state = "Flushing"],
                          op |-> <<>>, ret |-> "Ongoing"]
               [] r.action = "Complete" ->
                    [self |-> [r.self EXCEPT !.packets = @ + 1, !.goodbytes = @ + Len(b)],
                     op |-> b, ret |-> "Ok"]

\* get_byte dropping a full buffer without counting its bytes as bad
get_byte_NoBadCount(self, c, b, bcap) ==
    LET s0 == [self EXCEPT !.inbytes = @ + 1]
        r  == process_token(s0, c)
    IN  IF r.panic THEN [self |-> s0, op |-> b, ret |-> "Panic"]
        ELSE CASE r.action = "Error" ->
                    [self |-> [r.self EXCEPT !.badbytes = @ + Len(b)], op |-> <<>>, ret |-> "Ongoing"]
               [] r.action = "Flushing" ->
                    [self |-> [r.self EXCEPT !.badbytes = @ + 1], op |-> b, ret |-> "Ongoing"]
               [] r.action = "NoAction" ->
                    [self |-> r.self, op |-> b, ret |-> "Ongoing"]
               [] r.action = "Store" ->
                    IF Len(b) < bcap
                    THEN [self |-> r.self, op |-> Append(b, r.val), ret |-> "Ongoing"]
                    ELSE [self |-> [r.self EXCEPT !.toolong = @ + 1, !.state = "Flushing"],
                          op |-> <<>>, ret |-> "Ongoing"]
               [] r.action = "Complete" ->
                    [self |-> [r.self EXCEPT !.packets = @ + 1, !.goodbytes = @ + Len(b)],
                     op |-> b, ret |-> "Ok"]

\* get_byte storing one byte more than the capacity
get_byte_OneMore(self, c, b, bcap) ==
    LET s0 == [self EXCEPT !.inbytes = @ + 1]
        r  == process_token(s0, c)
    IN  IF r.panic THEN [self |-> s0, op |-> b, ret |-> "Panic"]
        ELSE CASE r.action = "Error" ->
                    [self |-> [r.self EXCEPT !.badbytes = @ + Len(b)], op |-> <<>>, ret |-> "Ongoing"]
               [] r.action = "Flushing" ->
                    [self |-> [r.self EXCEPT !.badbytes = @ + 1], op |-> b, ret |-> "Ongoing"]
               [] r.action = "NoAction" ->
                    [self |-> r.self, op |-> b, ret |-> "Ongoing"]
               [] r.action = "Store" ->
                    IF Len(b) <= bcap
                    THEN [self |-> r.self, op |-> Append(b, r.val), ret |-> "Ongoing"]
                    ELSE [self |-> [r.self EXCEPT !.badbytes = @ + Len(b), !.toolong = @ + 1,
                                                  !.state = "Flushing"],
                          op |-> <<>>, ret |-> "Ongoing"]
               [] r.action = "Complete" ->
                    [self |-> [r.self EXCEPT !.packets = @ + 1, !.goodbytes = @ + Len(b)],
                     op |-> b, ret |-> "Ok"]

\* Cobs::get_byte on the buffer b of capacity bcap, c being the incoming byte
get_byte(self, c, b, bcap) ==
    LET s0 == [self EXCEPT !.inbytes = @ + 1]
        r  == process_token(s0, c)
    IN  IF r.panic THEN [self |-> s0, op |-> b, ret |-> "Panic"]
        ELSE CASE r.action = "Error" ->
                    [self |-> [r.self EXCEPT !.badbytes = @ + Len(b)], op |-> <<>>, ret |-> "Ongoing"]
               [] r.action = "Flushing" ->
                    [self |-> [r.self EXCEPT !.badbytes = @ + 1], op |-> b, ret |-> "Ongoing"]
               [] r.action = "NoAction" ->
                    [self |-> r.self, op |-> b, ret |-> "Ongoing"]
               [] r.action = "Store" ->
                    IF Len(b) < bcap
                    THEN [self |-> r.self, op |-> Append(b, r.val), ret |-> "Ongoing"]
                    ELSE [self |-> [r.self EXCEPT !.badbytes = @ + Len(b), !.toolong = @ + 1,
                                                  !.state = "Flushing"],
                          op |-> <<>>, ret |-> "Ongoing"]
               [] r.action = "Complete" ->
                    [self |-> [r.self EXCEPT !.packets = @ + 1, !.goodbytes = @ + Len(b)],
                     op |-> b, ret |-> "Ok"]

\* get_frame handing back an empty buffer when the iterator runs out
RECURSIVE get_frame_DropsPartial(_, _, _, _)
get_frame_DropsPartial(self, iter, b, bcap) ==
    IF iter = <<>> THEN [self |-> self, iter |-> iter, op |-> <<>>, ret |-> "ShortData"]
    ELSE LET r == get_byte(self, Head(iter), b, bcap)
         IN  IF r.ret = "Ongoing" THEN get_frame_DropsPartial(r.self, Tail(iter), r.op, bcap)
             ELSE [self |-> r.self, iter |-> Tail(iter), op |-> r.op, ret |-> r.ret]

\* Cobs::get_frame: feed the iterator until a packet completes or it is exhausted
RECURSIVE get_frame(_, _, _, _)
get_frame(self, iter, b, bcap) ==
    IF iter = <<>> THEN [self |-> self, iter |-> iter, op |-> b, ret |-> "ShortData"]
    ELSE LET r == get_byte(self, Head(iter), b, bcap)
         IN  IF r.ret = "Ongoing" THEN get_frame(r.self, Tail(iter), r.op, bcap)
             ELSE [self |-> r.self, iter |-> Tail(iter), op |-> r.op, ret |-> r.ret]

\* get_frame called on one iterator until it is exhausted, each completed packet taken
\* by the caller and replaced by an empty buffer
RECURSIVE get_frames(_, _, _, _, _)
get_frames(self, iter, b, bcap, pkts) ==
    LET r == get_frame(self, iter, b, bcap)
    IN  IF r.ret = "Ok" THEN get_frames(r.self, r.iter, <<>>, bcap, Append(pkts, r.op))
        ELSE [self |-> r.self, op |-> r.op, pkts |-> pkts, ret |-> r.ret]

\* get_frame_as_vec counting the capacity of the abandoned Vec instead of its length
get_frame_as_vec_Capacity(self, iter) ==
    LET r == get_frame(self, iter, <<>>, MAX_PACKET_LEN)
    IN  IF r.ret = "ShortData"
        THEN [r EXCEPT !.self = [r.self EXCEPT !.badbytes = @ + MAX_PACKET_LEN,
                                               !.state = "Flushing"]]
        ELSE r

\* Cobs::get_frame_as_vec: a fresh Vec of capacity MAX_PACKET_LEN, abandoned on ShortData
get_frame_as_vec(self, iter) ==
    LET r == get_frame(self, iter, <<>>, MAX_PACKET_LEN)
    IN  IF r.ret = "ShortData"
        THEN [r EXCEPT !.self = [r.self EXCEPT !.badbytes = @ + Len(r.op), !.state = "Flushing"]]
        ELSE r

\* Cobs::set_sentinel
set_sentinel(self, s, force) ==
    IF "Rxing" # self.state \/ force
    THEN [self |-> [self EXCEPT !.sentinel = s], ret |-> "Ok"]
    ELSE [self |-> self, ret |-> "Busy"]

\* Cobs::max_possible_enc_len
max_possible_enc_len(ip_len) == 1 + ip_len + (ip_len \div 256) + 1

\* Cobs::cobs_encode up to its for loop: the checks, and the initial stride byte
cobs_encode_start(self, input) ==
    IF Len(input) = 0 THEN [ret |-> "ZeroLength", rest |-> <<>>, e |-> <<>>, d |-> 0]
    ELSE IF max_possible_enc_len(Len(input)) > MAX_ENC_PACKET_LEN
    THEN [ret |-> "Overlong", rest |-> <<>>, e |-> <<>>, d |-> 0]
    ELSE [ret |-> "Loop", rest |-> input, e |-> <<self.sentinel>>, d |-> 0]

\* one iteration of the for loop of Cobs::cobs_encode; e[d] of the source is e[d + 1] here
cobs_encode_step(self, st) ==
    LET i  == Head(st.rest)
        r1 == IF Len(st.e) - st.d = 255
              THEN [e |-> Append([st.e EXCEPT ![st.d + 1] = (Len(st.e) - st.d) % 256],
                                 self.sentinel),
                    d |-> Len(st.e)]
              ELSE [e |-> st.e, d |-> st.d]
        r2 == IF i = self.sentinel
              THEN [e |-> [r1.e EXCEPT ![r1.d + 1] = (Len(r1.e) - r1.d) % 256],
                    d |-> Len(r1.e)]
              ELSE r1
    IN  [ret |-> "Loop", rest |-> Tail(st.rest), e |-> Append(r2.e, i), d |-> r2.d]

\* Cobs::cobs_encode after its for loop: the last stride byte and the closing sentinel
cobs_encode_end(self, st) ==
    [ret |-> "Ok", rest |-> <<>>,
     e |-> Append([st.e EXCEPT ![st.d + 1] = (Len(st.e) - st.d) % 256], self.sentinel),
     d |-> st.d]

(***************************************************************************)
(* OrbFlow                                                                 *)
(***************************************************************************)
OFLOW_MAX_PACKET_LEN == 8192

STREAM_LEN == 1

CHECKSUM_LEN == 1

OVERHEAD_LEN == STREAM_LEN + CHECKSUM_LEN

OFLOW_MAX_ENC_PACKET_LEN == OVERHEAD_LEN + OFLOW_MAX_PACKET_LEN

\* OFlow::new
OFlowNew == [inbytestotal |-> 0, inpackets |-> 0, inerrpackets |-> 0]

\* Iterator::sum over u8: the wrapped sum, and whether any addition overflowed
RECURSIVE Sum8(_, _)
Sum8(s, acc) ==
    IF s = <<>> THEN acc
    ELSE LET a == Add8(acc.v, Head(s))
         IN  Sum8(Tail(s), [v |-> a.v, of |-> acc.of \/ a.of])

\* OFlow::get_checksum
get_checksum(stream_number, data) ==
    LET s1 == Sum8(data, [v |-> 0, of |-> FALSE])
        s2 == Add8(s1.v, stream_number)
    IN  IF (s1.of \/ s2.of) /\ overflow_checks
        THEN [panic |-> TRUE, sum |-> 0]
        ELSE [panic |-> FALSE, sum |-> (256 - s2.v) % 256]

\* oflow_frame! flattened by OFlow::encode_to_vec
encode_to_vec(stream_number, data) ==
    IF data = <<>> THEN [ret |-> "ZeroLength", v |-> <<>>]
    ELSE IF Len(data) > OFLOW_MAX_PACKET_LEN THEN [ret |-> "Overlong", v |-> <<>>]
    ELSE LET c == get_checksum(stream_number, data)
         IN  IF c.panic THEN [ret |-> "Panic", v |-> <<>>]
             ELSE [ret |-> "Ok", v |-> <<stream_number>> \o data \o <<c.sum>>]

\* OFlowFrame::content
content(frame) == SubSeq(frame.inner, STREAM_LEN + 1, Len(frame.inner) - CHECKSUM_LEN)

\* Index::index of OFlowFrame: the range test, then the slice access it guards
index(frame, i) ==
    IF Len(frame.inner) < 2 \/ i > Len(frame.inner) - 1 - CHECKSUM_LEN
    THEN [ret |-> "Panic", v |-> 0]
    ELSE IF i + STREAM_LEN >= Len(frame.inner)
    THEN [ret |-> "Panic", v |-> 0]
    ELSE [ret |-> "Ok", v |-> frame.inner[i + STREAM_LEN + 1]]

\* decode with its length check short by one
decode_ShortOff(self, pkt) ==
    IF Len(pkt) < OVERHEAD_LEN
    THEN [self |-> [self EXCEPT !.inerrpackets = @ + 1], ret |-> "ShortData",
          frame |-> [stream_number |-> 0, inner |-> <<>>]]
    ELSE IF Len(pkt) > OFLOW_MAX_ENC_PACKET_LEN
    THEN [self |-> [self EXCEPT !.inerrpackets = @ + 1], ret |-> "Overlong",
          frame |-> [stream_number |-> 0, inner |-> <<>>]]
    ELSE IF SeqSum(pkt) % 256 # 0
    THEN [self |-> [self EXCEPT !.inerrpackets = @ + 1], ret |-> "BadChecksum",
          frame |-> [stream_number |-> 0, inner |-> <<>>]]
    ELSE [self |-> [self EXCEPT !.inpackets = @ + 1,
                                !.inbytestotal = @ + (Len(pkt) - OVERHEAD_LEN)],
          ret |-> "Ok",
          frame |-> [stream_number |-> pkt[1], inner |-> pkt]]

\* decode counting the whole packet, overhead included, in inbytestotal
decode_CountsAll(self, pkt) ==
    IF Len(pkt) < 1 + OVERHEAD_LEN
    THEN [self |-> [self EXCEPT !.inerrpackets = @ + 1], ret |-> "ShortData",
          frame |-> [stream_number |-> 0, inner |-> <<>>]]
    ELSE IF Len(pkt) > OFLOW_MAX_ENC_PACKET_LEN
    THEN [self |-> [self EXCEPT !.inerrpackets = @ + 1], ret |-> "Overlong",
          frame |-> [stream_number |-> 0, inner |-> <<>>]]
    ELSE IF SeqSum(pkt) % 256 # 0
    THEN [self |-> [self EXCEPT !.inerrpackets = @ + 1], ret |-> "BadChecksum",
          frame |-> [stream_number |-> 0, inner |-> <<>>]]
    ELSE [self |-> [self EXCEPT !.inpackets = @ + 1, !.inbytestotal = @ + Len(pkt)],
          ret |-> "Ok",
          frame |-> [stream_number |-> pkt[1], inner |-> pkt]]

\* OFlow::decode
decode(self, pkt) ==
    IF Len(pkt) < 1 + OVERHEAD_LEN
    THEN [self |-> [self EXCEPT !.inerrpackets = @ + 1], ret |-> "ShortData",
          frame |-> [stream_number |-> 0, inner |-> <<>>]]
    ELSE IF Len(pkt) > OFLOW_MAX_ENC_PACKET_LEN
    THEN [self |-> [self EXCEPT !.inerrpackets = @ + 1], ret |-> "Overlong",
          frame |-> [stream_number |-> 0, inner |-> <<>>]]
    ELSE IF SeqSum(pkt) % 256 # 0
    THEN [self |-> [self EXCEPT !.inerrpackets = @ + 1], ret |-> "BadChecksum",
          frame |-> [stream_number |-> 0, inner |-> <<>>]]
    ELSE [self |-> [self EXCEPT !.inpackets = @ + 1,
                                !.inbytestotal = @ + (Len(pkt) - OVERHEAD_LEN)],
          ret |-> "Ok",
          frame |-> [stream_number |-> pkt[1], inner |-> pkt]]

(***************************************************************************)
(* ITM                                                                     *)
(***************************************************************************)
\* a sync mask one byte too wide: the byte ahead of the five zeros must be zero as well
ITM_SYNCMASK_Wide == 0..55

\* ITM_SYNCMASK, ITM_SYNCPATTERN, TPIU_SYNCMASK, TPIU_SYNCPATTERN as bit sets
ITM_SYNCMASK == 0..47

ITM_SYNCPATTERN == {7}

TPIU_SYNCMASK == 0..31

TPIU_SYNCPATTERN == (0..31) \ {7}

\* Option::None, for a state and for a frame
None == [tag |-> "None"]

NoFrame == [frame |-> "None"]

\* a bitmatch pattern, most significant bit first, "?" matching either bit
BitMatch(tok, pat) ==
    \A k \in 1..8 : pat[k] = "?" \/ pat[k] = (IF BitAt(tok, 8 - k) = 1 THEN "1" ELSE "0")

\* a left shift of a w-bit word: a shift by w or more overflows (masked when unchecked)
ShlW(s, n, w) == [v |-> Shl(s, n % w, w), of |-> n >= w]

\* u8 multiplication: wrapped value and overflow indication
Mul8(a, b) == [v |-> (a * b) % 256, of |-> a * b > 255]

\* the result of a State::token or StateMatch::matches call
Res(newstate, retval, self, i, of) ==
    [newstate |-> newstate, retval |-> retval, self |-> self, i |-> i,
     panic |-> of /\ overflow_checks]

StIdle == [tag |-> "Idle"]

StUnsynced == [tag |-> "Unsynced"]

\* ITMInternal::default
ITMInternalDefault ==
    [last_bytes |-> {}, page_register |-> 0, context_idlen |-> 0, timestamp |-> 0,
     gtimestamp |-> {},
     stats |-> [inbytestotal |-> 0, inpackets |-> 0, tpiusync |-> 0, itmsync |-> 0,
                instrupkts |-> 0, overflow |-> 0, ts |-> 0, noise |-> 0]]

\* ITMDecoder::new
ITMDecoderNew == [state |-> StUnsynced, i |-> ITMInternalDefault]

\* len / target of a header: tok & 3, with 3 meaning 4
HdrLen(tok) == IF tok % 4 = 3 THEN 4 ELSE tok % 4

\* Instrumentation::matches
InstrumentationMatches(tok, i) ==
    Res([tag |-> "Instrumentation", target |-> HdrLen(tok), count |-> 0,
         addr |-> (tok \div 8) % 32, data |-> {}],
        NoFrame, StIdle, [i EXCEPT !.stats.instrupkts = @ + 1], FALSE)

\* Instrumentation::token without the page register in the address
InstrumentationToken_NoPage(self, tok, i) ==
    LET m  == Mul8(8, self.count)
        sh == ShlW(Bits(tok), m.v, 32)
        c  == Add8(self.count, 1)
        s1 == IF self.count <= 4
              THEN [self EXCEPT !.data = @ \cup sh.v, !.count = c.v]
              ELSE self
        o1 == self.count <= 4 /\ (m.of \/ sh.of \/ c.of)
    IN  IF s1.count = s1.target
        THEN Res(StIdle,
                 [frame |-> "Instrumentation", addr |-> s1.addr, data |-> s1.data,
                  len |-> s1.target],
                 s1, i, o1)
        ELSE Res(None, NoFrame, s1, i, o1)

\* Instrumentation::token
InstrumentationToken(self, tok, i) ==
    LET m  == Mul8(8, self.count)
        sh == ShlW(Bits(tok), m.v, 32)
        c  == Add8(self.count, 1)
        s1 == IF self.count <= 4
              THEN [self EXCEPT !.data = @ \cup sh.v, !.count = c.v]
              ELSE self
        o1 == self.count <= 4 /\ (m.of \/ sh.of \/ c.of)
        a  == Add8(s1.addr, i.page_register)
    IN  IF s1.count = s1.target
        THEN Res(StIdle,
                 [frame |-> "Instrumentation", addr |-> a.v, data |-> s1.data, len |-> s1.target],
                 s1, i, o1 \/ a.of)
        ELSE Res(None, NoFrame, s1, i, o1)

\* Xtn::matches with pages of 16 addresses
XtnMatches_Page16(tok, i) ==
    IF BitAt(tok, 7) = 0
    THEN IF BitAt(tok, 2) # 0
         THEN Res(StIdle, NoFrame, StIdle,
                  [i EXCEPT !.page_register = 16 * ((tok \div 16) % 8)], FALSE)
         ELSE Res(StIdle,
                  [frame |-> "Xtn", source |-> BitAt(tok, 2) # 0, len |-> 0,
                   ex |-> Bits((tok \div 16) % 8)],
                  StIdle, i, FALSE)
    ELSE Res([tag |-> "Xtn", source |-> BitAt(tok, 2) # 0, ex |-> Bits((tok \div 16) % 8),
              count |-> 0, bitcount |-> 3],
             NoFrame, StIdle, i, FALSE)

\* Xtn::matches
XtnMatches(tok, i) ==
    IF BitAt(tok, 7) = 0
    THEN IF BitAt(tok, 2) # 0
         THEN Res(StIdle, NoFrame, StIdle,
                  [i EXCEPT !.page_register = 32 * ((tok \div 16) % 8)], FALSE)
         ELSE Res(StIdle,
                  [frame |-> "Xtn", source |-> BitAt(tok, 2) # 0, len |-> 0,
                   ex |-> Bits((tok \div 16) % 8)],
                  StIdle, i, FALSE)
    ELSE Res([tag |-> "Xtn", source |-> BitAt(tok, 2) # 0, ex |-> Bits((tok \div 16) % 8),
              count |-> 0, bitcount |-> 3],
             NoFrame, StIdle, i, FALSE)

\* Xtn::token without the limit on the bytes it accumulates
XtnToken_NoLimit(self, tok, i) ==
    LET sh == IF self.count < 4
              THEN ShlW(Bits(tok % 128), self.bitcount, 32)
              ELSE ShlW(Bits(tok), self.bitcount, 32)
        c  == Add8(self.count, 1)
        bc == Add8(self.bitcount, 7)
        s1 == [self EXCEPT !.ex = @ \cup sh.v, !.count = c.v, !.bitcount = bc.v]
        o1 == sh.of \/ c.of \/ bc.of
    IN  IF BitAt(tok, 7) = 0
        THEN Res(StIdle,
                 [frame |-> "Xtn", source |-> s1.source, len |-> s1.count, ex |-> s1.ex],
                 s1, i, o1)
        ELSE Res(None, NoFrame, s1, i, o1)

\* Xtn::token
XtnToken(self, tok, i) ==
    LET sh == IF self.count < 4
              THEN ShlW(Bits(tok % 128), self.bitcount, 32)
              ELSE ShlW(Bits(tok), self.bitcount, 32)
        c  == Add8(self.count, 1)
        bc == Add8(self.bitcount, 7)
        s1 == IF self.count <= 4
              THEN [self EXCEPT !.ex = @ \cup sh.v, !.count = c.v, !.bitcount = bc.v]
              ELSE self
        o1 == self.count <= 4 /\ (sh.of \/ c.of \/ bc.of)
    IN  IF BitAt(tok, 7) = 0
        THEN Res(StIdle,
                 [frame |-> "Xtn", source |-> s1.source, len |-> s1.count, ex |-> s1.ex],
                 s1, i, o1)
        ELSE Res(None, NoFrame, s1, i, o1)

\* the ttypen match of Lts::token
TSTypeOf(ttypen) ==
    CASE ttypen = 0 -> "Sync"
      [] ttypen = 1 -> "TSDelayed"
      [] ttypen = 2 -> "DataDelayed"
      [] ttypen = 3 -> "BothDelayed"
      [] OTHER -> "BothDelayed"

\* Lts::matches
LtsMatches(tok, i) ==
    LET i1 == [i EXCEPT !.stats.ts = @ + 1]
    IN  IF BitAt(tok, 7) = 0
        THEN Res(StIdle,
                 [frame |-> "Timestamp", ttype |-> "Sync", ts |-> Bits((tok \div 16) % 8)],
                 StIdle, i1, FALSE)
        ELSE Res([tag |-> "Lts", ttypen |-> (tok \div 16) % 4, ts |-> {}, count |-> 0],
                 NoFrame, StIdle, i1, FALSE)

\* Lts::token taking five payload bytes
LtsToken_Five(self, tok, i) ==
    LET m  == Mul8(7, self.count)
        sh == ShlW(Bits(tok % 128), m.v, 64)
        c  == Add8(self.count, 1)
        s1 == IF self.count < 5
              THEN [self EXCEPT !.ts = @ \cup sh.v, !.count = c.v]
              ELSE self
    IN  IF BitAt(tok, 7) = 0
        THEN Res(StIdle,
                 [frame |-> "Timestamp", ttype |-> TSTypeOf(s1.ttypen), ts |-> s1.ts],
                 s1, i, FALSE)
        ELSE Res(None, NoFrame, s1, i, FALSE)

\* Lts::token
LtsToken(self, tok, i) ==
    LET m  == Mul8(7, self.count)
        sh == ShlW(Bits(tok % 128), m.v, 64)
        c  == Add8(self.count, 1)
        s1 == IF self.count < 4
              THEN [self EXCEPT !.ts = @ \cup sh.v, !.count = c.v]
              ELSE self
        o1 == self.count < 4 /\ (m.of \/ sh.of \/ c.of)
    IN  IF BitAt(tok, 7) = 0
        THEN Res(StIdle,
                 [frame |-> "Timestamp", ttype |-> TSTypeOf(s1.ttypen), ts |-> s1.ts],
                 s1, i, o1)
        ELSE Res(None, NoFrame, s1, i, o1)

\* Gts2::matches
Gts2Matches(tok, i) ==
    Res([tag |-> "Gts2", count |-> 0, gts |-> {}], NoFrame, StIdle, i, FALSE)

\* Gts2::token
Gts2Token(self, tok, i) ==
    LET m  == Mul8(7, self.count)
        sh == ShlW(Bits(tok % 128), m.v, 64)
        c  == Add8(self.count, 1)
        s1 == IF self.count < 7
              THEN [self EXCEPT !.gts = @ \cup sh.v, !.count = c.v]
              ELSE self
        o1 == self.count < 7 /\ (m.of \/ sh.of \/ c.of)
    IN  IF BitAt(tok, 7) = 0
        THEN Res(StIdle,
                 [frame |-> "Globaltimestamp", has_wrapped |-> FALSE, ts |-> s1.gts],
                 s1, [i EXCEPT !.gtimestamp = s1.gts], o1)
        ELSE Res(None, NoFrame, s1, i, o1)

\* Gts1::matches
Gts1Matches(tok, i) ==
    Res([tag |-> "Gts1", wrap |-> FALSE, count |-> 0, gts |-> i.gtimestamp],
        NoFrame, StIdle, i, FALSE)

\* Gts1::token adding the payload bits to the stored ones without clearing them
Gts1Token_Or(self, tok, i) ==
    LET m    == Mul8(7, self.count)
        c    == Add8(self.count, 1)
        v1f  == ShlW(Bits(tok % 32), m.v, 64)
        v7f  == ShlW(Bits(tok % 128), m.v, 64)
        s1 == IF self.count <= 3
              THEN IF c.v = 4
                   THEN [self EXCEPT !.count = c.v, !.wrap = (BitAt(tok, 6) # 0),
                                     !.gts = @ \cup v1f.v]
                   ELSE [self EXCEPT !.count = c.v, !.gts = @ \cup v7f.v]
              ELSE self
    IN  IF BitAt(tok, 7) = 0
        THEN Res(StIdle,
                 [frame |-> "Globaltimestamp", has_wrapped |-> s1.wrap, ts |-> s1.gts],
                 s1, [i EXCEPT !.gtimestamp = s1.gts], FALSE)
        ELSE Res(None, NoFrame, s1, i, FALSE)

\* Gts1::token
Gts1Token(self, tok, i) ==
    LET m    == Mul8(7, self.count)
        c    == Add8(self.count, 1)
        m1f  == ShlW(0..4, m.v, 64)
        v1f  == ShlW(Bits(tok % 32), m.v, 64)
        m7f  == ShlW(0..6, m.v, 64)
        v7f  == ShlW(Bits(tok % 128), m.v, 64)
        s1 == IF self.count <= 3
              THEN IF c.v = 4
                   THEN [self EXCEPT !.count = c.v, !.wrap = (BitAt(tok, 6) # 0),
                                     !.gts = (@ \ m1f.v) \cup v1f.v]
                   ELSE [self EXCEPT !.count = c.v,
                                     !.gts = (@ \ m7f.v) \cup v7f.v]
              ELSE self
        o1 == self.count <= 3 /\ (m.of \/ c.of \/ m7f.of)
    IN  IF BitAt(tok, 7) = 0
        THEN Res(StIdle,
                 [frame |-> "Globaltimestamp", has_wrapped |-> s1.wrap, ts |-> s1.gts],
                 s1, [i EXCEPT !.gtimestamp = s1.gts], o1)
        ELSE Res(None, NoFrame, s1, i, o1)

\* the event match of Exception::token
ExceptionEventOf(e) ==
    CASE e = 1 -> "Entry"
      [] e = 2 -> "Exit"
      [] e = 3 -> "Returned"
      [] OTHER -> "Unknown"

\* Exception::matches
ExceptionMatches(tok, i) ==
    Res([tag |-> "Exception", no |-> {}, count |-> 0, event |-> 0], NoFrame, StIdle, i, FALSE)


\* Exception::token closing the packet on its third payload byte
ExceptionToken_Three(self, tok, i) ==
    LET c  == Add8(self.count, 1)
        s1 == [self EXCEPT !.count = c.v]
    IN  CASE s1.count = 1 ->
               Res(None, NoFrame, [s1 EXCEPT !.no = Bits(tok)], i, c.of)
          [] s1.count = 3 ->
               LET s2 == [s1 EXCEPT !.no = @ \cup Shl(Bits(tok % 2), 8, 16)]
               IN  Res(StIdle,
                       [frame |-> "Exception", no |-> s2.no,
                        event |-> ExceptionEventOf((tok \div 16) % 4)],
                       s2, i, c.of)
          [] OTHER -> Res(None, NoFrame, s1, i, c.of)

\* Exception::token
ExceptionToken(self, tok, i) ==
    LET c  == Add8(self.count, 1)
        s1 == [self EXCEPT !.count = c.v]
    IN  CASE s1.count = 1 ->
               Res(None, NoFrame, [s1 EXCEPT !.no = Bits(tok)], i, c.of)
          [] s1.count = 2 ->
               LET s2 == [s1 EXCEPT !.no = @ \cup Shl(Bits(tok % 2), 8, 16)]
               IN  Res(StIdle,
                       [frame |-> "Exception", no |-> s2.no,
                        event |-> ExceptionEventOf((tok \div 16) % 4)],
                       s2, i, c.of)
          [] OTHER -> Res(None, NoFrame, s1, i, c.of)

\* the dt_type bitmatch with its PC match arm missing
DataMatchTypeOf_NoPC(tok) ==
    CASE BitMatch(tok, <<"0","1","?","?", "0","1","0","1">>) -> "Match"
      [] BitMatch(tok, <<"0","1","?","?", "1","1","?","?">>) -> "DataAddrMatch"
      [] BitMatch(tok, <<"1","0","?","?", "?","1","?","?">>) -> "DataValMatch"
      [] OTHER -> "panic"

\* the dt_type bitmatch of DataTrace::matches
DataMatchTypeOf(tok) ==
    IF BitMatch(tok, <<"0","1","?","?", "0","1","0","1">>) THEN "Match"
    ELSE IF BitMatch(tok, <<"0","1","?","?", "0","1","?","?">>) THEN "PCMatch"
    ELSE IF BitMatch(tok, <<"0","1","?","?", "1","1","?","?">>) THEN "DataAddrMatch"
    ELSE IF BitMatch(tok, <<"1","0","?","?", "?","1","?","?">>) THEN "DataValMatch"
    ELSE "panic"

\* DataTrace::matches taking three bits of the header for the index
DataTraceMatches_Index8(tok, i) ==
    LET t == DataMatchTypeOf(tok)
    IN  [Res([tag |-> "DataTrace", index |-> (tok \div 16) % 8, addr |-> {},
              len |-> HdrLen(tok), count |-> 0, wnr |-> BitAt(tok, 3) # 0, dt_type |-> t],
             NoFrame, StIdle, i, FALSE)
         EXCEPT !.panic = (t = "panic")]

\* DataTrace::matches
DataTraceMatches(tok, i) ==
    LET t == DataMatchTypeOf(tok)
    IN  [Res([tag |-> "DataTrace", index |-> (tok \div 16) % 4, addr |-> {},
              len |-> HdrLen(tok), count |-> 0, wnr |-> BitAt(tok, 3) # 0, dt_type |-> t],
             NoFrame, StIdle, i, FALSE)
         EXCEPT !.panic = (t = "panic")]

\* DataTrace::token
DataTraceToken(self, tok, i) ==
    LET m  == Mul8(self.count, 8)
        sh == ShlW(Bits(tok), m.v, 32)
        c  == Add8(self.count, 1)
        s1 == [self EXCEPT !.addr = @ \cup sh.v, !.count = c.v]
        o1 == m.of \/ sh.of \/ c.of
    IN  IF s1.dt_type = "Match" /\ s1.len = 1 /\ tok % 2 = 1
        THEN Res(StIdle, [frame |-> "DataTraceMatch", index |-> s1.index], s1, i, o1)
        ELSE IF s1.count = s1.len
        THEN CASE s1.dt_type = "DataValMatch" ->
                    Res(StIdle,
                        [frame |-> "DataTraceValue", index |-> s1.index, addr |-> s1.addr,
                         len |-> s1.len, wnr |-> s1.wnr],
                        s1, i, o1)
               [] s1.dt_type = "Match" ->
                    Res(StIdle,
                        [frame |-> "DataTracePC", index |-> s1.index, addr |-> s1.addr,
                         len |-> s1.len],
                        s1, i, o1)
               [] s1.dt_type = "PCMatch" ->
                    Res(StIdle,
                        [frame |-> "DataTracePC", index |-> s1.index, addr |-> s1.addr,
                         len |-> s1.len],
                        s1, i, o1)
               [] s1.dt_type = "DataAddrMatch" ->
                    Res(StIdle,
                        [frame |-> "DataTraceAddr", index |-> s1.index, daddr |-> s1.addr,
                         len |-> s1.len],
                        s1, i, o1)
        ELSE Res(None, NoFrame, s1, i, o1)

\* PCSample::matches
PCSampleMatches(tok, i) ==
    Res([tag |-> "PCSample", addr |-> {}, len |-> HdrLen(tok), count |-> 0],
        NoFrame, StIdle, i, FALSE)

\* PCSample::token
PCSampleToken(self, tok, i) ==
    IF self.len = 1
    THEN Res(StIdle, [frame |-> "PCSleep", prohibited |-> (tok = 255)], self, i, FALSE)
    ELSE LET m  == Mul8(self.count, 8)
             sh == ShlW(Bits(tok), m.v, 32)
             c  == Add8(self.count, 1)
             s1 == [self EXCEPT !.addr = @ \cup sh.v, !.count = c.v]
             o1 == m.of \/ sh.of \/ c.of
         IN  IF s1.count = s1.len
             THEN Res(StIdle, [frame |-> "PCSample", addr |-> s1.addr], s1, i, o1)
             ELSE Res(None, NoFrame, s1, i, o1)

\* Event::matches
EventMatches(tok, i) == Res([tag |-> "Event"], NoFrame, StIdle, i, FALSE)

\* Event::token
EventToken(self, tok, i) ==
    Res(StIdle,
        [frame |-> "EventC",
         cpicnt_wrapped |-> BitAt(tok, 0) # 0, exccnt_wrapped |-> BitAt(tok, 1) # 0,
         sleepcnt_wrapped |-> BitAt(tok, 2) # 0, lsucnt_wrapped |-> BitAt(tok, 3) # 0,
         foldcnt_wrapped |-> BitAt(tok, 4) # 0, postcnt_wrapped |-> BitAt(tok, 5) # 0],
        self, i, FALSE)

\* PMUOverflow::matches
PMUOverflowMatches(tok, i) == Res([tag |-> "PMUOverflow"], NoFrame, StIdle, i, FALSE)

\* PMUOverflow::token
PMUOverflowToken(self, tok, i) ==
    Res(StIdle, [frame |-> "PMUOverflow", ovf |-> tok], self, i, FALSE)

\* Overflow::matches numbering the frame without counting the packet
OverflowMatches_NoCount(tok, i) ==
    Res(None, [frame |-> "Overflow", count |-> i.stats.overflow + 1], StIdle, i, FALSE)

\* Overflow::matches
OverflowMatches(tok, i) ==
    LET i1 == [i EXCEPT !.stats.overflow = @ + 1]
    IN  Res(None, [frame |-> "Overflow", count |-> i1.stats.overflow], StIdle, i1, FALSE)

\* the noise arms of Idle::token
Noise(i) == Res(None, NoFrame, StIdle, [i EXCEPT !.stats.noise = @ + 1], FALSE)

\* the dispatch table without its arm for the remaining bytes that end in 00
IdleToken_NoNoiseRow(self, tok, i) ==
    IF BitMatch(tok, <<"0","0","0","0", "0","0","0","0">>) THEN Res(None, NoFrame, StIdle, i, FALSE)
    ELSE IF BitMatch(tok, <<"0","1","1","1", "0","0","0","0">>) THEN OverflowMatches(tok, i)
    ELSE IF BitMatch(tok, <<"1","0","0","1", "0","1","0","0">>) THEN Gts1Matches(tok, i)
    ELSE IF BitMatch(tok, <<"1","0","1","1", "0","1","0","0">>) THEN Gts2Matches(tok, i)
    ELSE IF BitMatch(tok, <<"0","?","?","?", "0","0","0","0">>) THEN LtsMatches(tok, i)
    ELSE IF BitMatch(tok, <<"1","1","?","?", "0","0","0","0">>) THEN LtsMatches(tok, i)
    ELSE IF BitMatch(tok, <<"?","?","?","?", "1","?","0","0">>) THEN XtnMatches(tok, i)
    ELSE IF BitMatch(tok, <<"0","0","0","0", "0","1","0","1">>) THEN EventMatches(tok, i)
    ELSE IF BitMatch(tok, <<"0","1","?","?", "?","1","?","?">>) THEN DataTraceMatches(tok, i)
    ELSE IF BitMatch(tok, <<"0","0","0","0", "1","1","1","0">>) THEN ExceptionMatches(tok, i)
    ELSE IF BitMatch(tok, <<"1","0","?","?", "?","1","?","?">>) THEN DataTraceMatches(tok, i)
    ELSE IF BitMatch(tok, <<"?","?","?","?", "?","0","?","?">>) THEN InstrumentationMatches(tok, i)
    ELSE IF BitMatch(tok, <<"0","0","0","1", "0","1","?","1">>) THEN PCSampleMatches(tok, i)
    ELSE IF BitMatch(tok, <<"0","0","0","1", "1","1","0","1">>) THEN PMUOverflowMatches(tok, i)
    ELSE Noise(i)

\* Idle::token: the dispatch table, first matching pattern wins
IdleToken(self, tok, i) ==
    IF BitMatch(tok, <<"0","0","0","0", "0","0","0","0">>) THEN Res(None, NoFrame, StIdle, i, FALSE)
    ELSE IF BitMatch(tok, <<"0","1","1","1", "0","0","0","0">>) THEN OverflowMatches(tok, i)
    ELSE IF BitMatch(tok, <<"1","0","0","1", "0","1","0","0">>) THEN Gts1Matches(tok, i)
    ELSE IF BitMatch(tok, <<"1","0","1","1", "0","1","0","0">>) THEN Gts2Matches(tok, i)
    ELSE IF BitMatch(tok, <<"0","?","?","?", "0","0","0","0">>) THEN LtsMatches(tok, i)
    ELSE IF BitMatch(tok, <<"1","1","?","?", "0","0","0","0">>) THEN LtsMatches(tok, i)
    ELSE IF BitMatch(tok, <<"?","?","?","?", "1","?","0","0">>) THEN XtnMatches(tok, i)
    ELSE IF BitMatch(tok, <<"0","0","0","0", "0","1","0","1">>) THEN EventMatches(tok, i)
    ELSE IF BitMatch(tok, <<"?","?","?","?", "?","?","0","0">>) THEN Noise(i)
    ELSE IF BitMatch(tok, <<"0","1","?","?", "?","1","?","?">>) THEN DataTraceMatches(tok, i)
    ELSE IF BitMatch(tok, <<"0","0","0","0", "1","1","1","0">>) THEN ExceptionMatches(tok, i)
    ELSE IF BitMatch(tok, <<"1","0","?","?", "?","1","?","?">>) THEN DataTraceMatches(tok, i)
    ELSE IF BitMatch(tok, <<"?","?","?","?", "?","0","?","?">>) THEN InstrumentationMatches(tok, i)
    ELSE IF BitMatch(tok, <<"0","0","0","1", "0","1","?","1">>) THEN PCSampleMatches(tok, i)
    ELSE IF BitMatch(tok, <<"0","0","0","1", "1","1","0","1">>) THEN PMUOverflowMatches(tok, i)
    ELSE Noise(i)

\* Unsynced::token
UnsyncedToken(self, tok, i) == Res(None, NoFrame, self, i, FALSE)

\* dynamic dispatch of self.state.token(tok, &mut self.i)
StateToken(self, tok, i) ==
    CASE self.tag = "Idle"            -> IdleToken(self, tok, i)
      [] self.tag = "Unsynced"        -> UnsyncedToken(self, tok, i)
      [] self.tag = "Instrumentation" -> InstrumentationToken(self, tok, i)
      [] self.tag = "Xtn"             -> XtnToken(self, tok, i)
      [] self.tag = "Lts"             -> LtsToken(self, tok, i)
      [] self.tag = "Gts2"            -> Gts2Token(self, tok, i)
      [] self.tag = "Gts1"            -> Gts1Token(self, tok, i)
      [] self.tag = "Exception"       -> ExceptionToken(self, tok, i)
      [] self.tag = "DataTrace"       -> DataTraceToken(self, tok, i)
      [] self.tag = "PCSample"        -> PCSampleToken(self, tok, i)
      [] self.tag = "Event"           -> EventToken(self, tok, i)
      [] self.tag = "PMUOverflow"     -> PMUOverflowToken(self, tok, i)

\* ITMDecoder::token, first part: the byte is shifted into last_bytes and counted
ShiftIn(i, tok) ==
    [i EXCEPT !.last_bytes = Shl(@, 8, 64) \cup Bits(tok), !.stats.inbytestotal = @ + 1]

\* the TPIU sync arm leaving the decoder in Idle
TokenTpiuSync_Idle(i0) ==
    [d |-> [state |-> StIdle,
            i |-> [i0 EXCEPT !.stats.tpiusync = @ + 1, !.stats.inpackets = @ + 1]],
     retval |-> [frame |-> "TPIUSync", count |-> i0.stats.tpiusync + 1],
     panic |-> FALSE]

\* ITMDecoder::token, the TPIU sync arm
TokenTpiuSync(i0) ==
    [d |-> [state |-> StUnsynced,
            i |-> [i0 EXCEPT !.stats.tpiusync = @ + 1, !.stats.inpackets = @ + 1]],
     retval |-> [frame |-> "TPIUSync", count |-> i0.stats.tpiusync + 1],
     panic |-> FALSE]

\* the ITM sync arm without the reset of the page register
TokenItmSync_KeepPage(i0) ==
    [d |-> [state |-> StIdle,
            i |-> [i0 EXCEPT !.stats.itmsync = @ + 1, !.stats.inpackets = @ + 1]],
     retval |-> [frame |-> "Sync", count |-> i0.stats.itmsync + 1],
     panic |-> FALSE]

\* the ITM sync arm clearing the global timestamp as well
TokenItmSync_ResetsGts(i0) ==
    [d |-> [state |-> StIdle,
            i |-> [i0 EXCEPT !.stats.itmsync = @ + 1, !.page_register = 0, !.gtimestamp = {},
                             !.stats.inpackets = @ + 1]],
     retval |-> [frame |-> "Sync", count |-> i0.stats.itmsync + 1],
     panic |-> FALSE]

\* ITMDecoder::token, the ITM sync arm
TokenItmSync(i0) ==
    [d |-> [state |-> StIdle,
            i |-> [i0 EXCEPT !.stats.itmsync = @ + 1, !.page_register = 0,
                             !.stats.inpackets = @ + 1]],
     retval |-> [frame |-> "Sync", count |-> i0.stats.itmsync + 1],
     panic |-> FALSE]

\* ITMDecoder::token, last part: the result r of the current state's token call
TokenDispatch(d, i0, r) ==
    IF r.panic
    THEN [d |-> [state |-> d.state, i |-> i0], retval |-> NoFrame, panic |-> TRUE]
    ELSE [d |-> [state |-> IF r.newstate.tag # "None" THEN r.newstate ELSE r.self,
                 i |-> IF r.retval.frame # "None"
                       THEN [r.i EXCEPT !.stats.inpackets = @ + 1]
                       ELSE r.i],
          retval |-> r.retval, panic |-> FALSE]

\* ITMDecoder::token, the sync checks and the dispatch, i0 being the internals after ShiftIn
TokenChecks(d, tok, i0) ==
    IF (i0.last_bytes \cap TPIU_SYNCMASK) = TPIU_SYNCPATTERN
    THEN TokenTpiuSync(i0)
    ELSE IF (i0.last_bytes \cap ITM_SYNCMASK) = ITM_SYNCPATTERN
    THEN TokenItmSync(i0)
    ELSE TokenDispatch(d, i0, StateToken(d.state, tok, i0))

\* ITMDecoder::token
token(d, tok) == TokenChecks(d, tok, ShiftIn(d.i, tok))

\* ITMDecoder::get_frame: pull bytes until a frame is returned or the iterator ends
RECURSIVE itm_get_frame(_, _)
\* the match on self.token(*t) in ITMDecoder::get_frame
GetFrameMatch(r, rest) ==
    IF r.panic THEN [d |-> r.d, iter |-> rest, ret |-> "Panic", frame |-> NoFrame]
    ELSE IF r.retval.frame # "None"
    THEN [d |-> r.d, iter |-> rest, ret |-> "Ok", frame |-> r.retval]
    ELSE itm_get_frame(r.d, rest)

\* get_frame forgetting the packet in progress when the iterator ends
itm_get_frame_DropsPacket(d, iter) ==
    IF iter = <<>>
    THEN [d |-> [d EXCEPT !.state = IF @.tag = "Unsynced" THEN @ ELSE StIdle],
          iter |-> iter, ret |-> "ShortData", frame |-> NoFrame]
    ELSE GetFrameMatch(token(d, Head(iter)), Tail(iter))

itm_get_frame(d, iter) ==
    IF iter = <<>> THEN [d |-> d, iter |-> iter, ret |-> "ShortData", frame |-> NoFrame]
    ELSE GetFrameMatch(token(d, Head(iter)), Tail(iter))

\* get_frame called on one iterator until it is exhausted, the frames collected
RECURSIVE itm_get_frames(_, _, _)
\* the match on get_frame's result
ItmFramesMatch(r, frames) ==
    IF r.ret = "Ok" THEN itm_get_frames(r.d, r.iter, Append(frames, r.frame))
    ELSE [d |-> r.d, frames |-> frames, ret |-> r.ret]

itm_get_frames(d, iter, frames) == ItmFramesMatch(itm_get_frame(d, iter), frames)

(***************************************************************************)
(* Collector                                                               *)
(***************************************************************************)
\* strings are sequences of characters
OFLOW_PREFIX == <<"o", "f", "l", "o", "w">>

ITM_PREFIX == <<"i", "t", "m">>

FILE_PREFIX == <<"f", "i", "l", "e">>

URL_SEPARATOR == <<":", "/", "/">>

DEFAULT_CONNECT_ADDR == <<"l", "o", "c", "a", "l", "h", "o", "s", "t">>

DEFAULT_PORT == <<"3", "4", "0", "2">>

PORT_SEP == <<":">>

\* Option<String>: Some(v)
Some(v) == [tag |-> "Some", v |-> v]

\* str::contains with a string pattern
contains(s, pat) ==
    \E k \in 1..(Len(s) - Len(pat) + 1) : SubSeq(s, k, k + Len(pat) - 1) = pat

\* calculate_url appending the default port to every address
calculate_url_AlwaysPort(input_file, server, protocol) ==
    IF input_file.tag = "Some"
    THEN FILE_PREFIX \o URL_SEPARATOR \o input_file.v
    ELSE LET prot == IF protocol.tag = "Some" THEN protocol.v
                     ELSE IF server.tag = "Some" THEN ITM_PREFIX ELSE OFLOW_PREFIX
             addr == IF server.tag = "Some" THEN server.v ELSE DEFAULT_CONNECT_ADDR
         IN  prot \o URL_SEPARATOR \o (addr \o PORT_SEP \o DEFAULT_PORT)

\* Collect::calculate_url
calculate_url(input_file, server, protocol) ==
    IF input_file.tag = "Some"
    THEN FILE_PREFIX \o URL_SEPARATOR \o input_file.v
    ELSE LET prot == IF protocol.tag = "Some" THEN protocol.v
                     ELSE IF server.tag = "Some" THEN ITM_PREFIX ELSE OFLOW_PREFIX
             addr == IF server.tag = "Some" THEN server.v ELSE DEFAULT_CONNECT_ADDR
         IN  prot \o URL_SEPARATOR
                  \o (IF ~contains(addr, PORT_SEP) THEN addr \o PORT_SEP \o DEFAULT_PORT
                      ELSE addr)

\* the test on the kind of a failed read: Interrupted and WouldBlock only
ReadRetries_Interrupted(kind) == kind = "Interrupted"

\* the test on the kind of a failed read in collect_data
ReadRetries(kind) == kind \in {"Interrupted", "WouldBlock"}

\* Collect::itm_process: frames go to the handler h until the iterator is exhausted or
\* process returns false, which it does on its call number fail_at; h.passed keeps the
\* frames process was called with
RECURSIVE itm_process(_, _, _, _)
\* the result r of get_frame in the loop of itm_process
ItmProcessMatch(r, h, fail_at) ==
    IF r.ret = "Ok"
    THEN IF h.calls + 1 = fail_at
         THEN [d |-> r.d,
               h |-> [calls |-> h.calls + 1, failed |-> TRUE,
                      inds |-> Append(h.inds, "ProcessingFailed"),
                      passed |-> Append(h.passed, r.frame)],
               ret |-> "ProcessingError"]
         ELSE itm_process(r.d, r.iter,
                          [h EXCEPT !.calls = @ + 1, !.passed = Append(@, r.frame)], fail_at)
    ELSE [d |-> r.d, h |-> h, ret |-> r.ret]

itm_process(d, iter, h, fail_at) == ItmProcessMatch(itm_get_frame(d, iter), h, fail_at)

\* collect_data, the while loop over the bytes s of one read in OrbFlow mode; st holds
\* the three decoders, the packet buffer pp and the handler h; st.decoded keeps the
\* length of each packet handed to decode in this turn, and what decode returned
RECURSIVE collect_oflow(_, _, _)
\* itm_process has returned p: an error only ends the work on this OrbFlow frame
CollectItmMatch(st, p, s, cfg) ==
    IF p.ret = "Panic" THEN [st EXCEPT !.itm = p.d, !.h = p.h, !.panic = TRUE]
    ELSE collect_oflow([st EXCEPT !.itm = p.d, !.h = p.h], s, cfg)

\* the loop without the test of the stream number
CollectDecodeMatch_NoFilter(st, q, s, cfg) ==
    IF q.ret # "Ok"
    THEN collect_oflow([st EXCEPT !.oflow = q.self, !.h.inds = Append(@, "OFlowError")], s, cfg)
    ELSE CollectItmMatch([st EXCEPT !.oflow = q.self, !.frames = Append(@, q.frame)],
                         itm_process(st.itm, content(q.frame), st.h, cfg.fail_at), s, cfg)

\* decode has returned q; st.frames keeps the frames decoded in this turn of the loop
CollectDecodeMatch(st, q, s, cfg) ==
    IF q.ret # "Ok"
    THEN collect_oflow([st EXCEPT !.oflow = q.self, !.h.inds = Append(@, "OFlowError")], s, cfg)
    ELSE IF q.frame.stream_number # cfg.stream_number
    THEN collect_oflow([st EXCEPT !.oflow = q.self, !.frames = Append(@, q.frame)], s, cfg)
    ELSE CollectItmMatch([st EXCEPT !.oflow = q.self, !.frames = Append(@, q.frame)],
                         itm_process(st.itm, content(q.frame), st.h, cfg.fail_at), s, cfg)

\* the loop with a packet buffer that does not outlive the read
CollectFrameMatch_NewBuffer(st, r, cfg) ==
    IF r.ret = "Panic" THEN [st EXCEPT !.cobs = r.self, !.pp = r.op, !.panic = TRUE]
    ELSE IF r.ret = "ShortData" THEN [st EXCEPT !.cobs = r.self, !.pp = <<>>]
    ELSE CollectDecodeMatch([st EXCEPT !.cobs = r.self, !.pp = <<>>,
                                       !.decoded = Append(@, [len |-> Len(r.op),
                                                              ret |-> decode(st.oflow, r.op).ret])],
                            decode(st.oflow, r.op), r.iter, cfg)

\* get_frame has returned r
CollectFrameMatch(st, r, cfg) ==
    IF r.ret = "Panic" THEN [st EXCEPT !.cobs = r.self, !.pp = r.op, !.panic = TRUE]
    ELSE IF r.ret = "ShortData" THEN [st EXCEPT !.cobs = r.self, !.pp = r.op]
    ELSE CollectDecodeMatch([st EXCEPT !.cobs = r.self, !.pp = <<>>,
                                       !.decoded = Append(@, [len |-> Len(r.op),
                                                              ret |-> decode(st.oflow, r.op).ret])],
                            decode(st.oflow, r.op), r.iter, cfg)

collect_oflow(st, s, cfg) ==
    IF s = <<>> THEN st
    ELSE CollectFrameMatch(st, get_frame(st.cobs, s, st.pp, MAX_PACKET_LEN), cfg)

(***************************************************************************)
(* Inputs                                                                  *)
(***************************************************************************)
\* bytes fed to the COBS decoder as a free stream
CobsBytes == {0, 1, 2, 255}

\* bytes in the chunks given to get_frame
FrameBytes == {0, 1, 2}

\* sentinel values the COBS decoder is configured with
Sentinels == {0, 1, 2}

\* sentinel values set_sentinel is called with on a running decoder
CobsSentinels == {0, 1}

\* a packet of n bytes: a stream number, zeros, and a last byte
LongPacket(first, last, n) == [i \in 1..n |-> IF i = 1 THEN first ELSE IF i = n THEN last ELSE 0]

\* packets given to decode: every short one, and packets at and beyond the maximum
\* length, with a checksum byte that fits (255 + 1) and one that does not (1 + 0)
OfPackets ==
    SeqsOf({0, 128}, 0, MaxLen)
    \cup {LongPacket(fl[1], fl[2], n) :
              fl \in {<<255, 1>>, <<1, 0>>},
              n \in {OFLOW_MAX_ENC_PACKET_LEN, OFLOW_MAX_ENC_PACKET_LEN + 1}}

\* payloads given to cobs_encode: every short one, and long runs around the 254 limit
Payloads ==
    SeqsOf({0, 1, 2}, 1, MaxLen)
    \cup {Rep(1, n) \o t : n \in {253, 254, 255}, t \in {<<>>, <<0>>, <<1>>}}

\* a packet cut short by an early sentinel (a framing error), ahead of the good packet
Prefixes(s) == {<<>>, <<4, 9, s>>}

\* stream numbers and payloads given to encode_to_vec
Streams == {0, 1, 27, 255}

OfPayloads == SeqsOf({0, 1, 2, 255}, 1, MaxLen)

\* the ITM and TPIU synchronisation sequences
SyncSeq == <<0, 0, 0, 0, 0, 128>>

TpiuSeq == <<255, 255, 255, 127>>

\* byte sequences the caller's iterators run over: the sync sequences, whole packets,
\* and packets cut at every kind of header
ItmChunks ==
    {SyncSeq, TpiuSeq,
     <<3, 17>>,       \* Instrumentation, len 4, one payload byte
     <<1, 34>>,       \* Instrumentation, len 1, complete
     <<28>>,          \* Xtn short form: page register := 32
     <<136>>,         \* Xtn, multi-byte header
     <<148, 243>>,    \* Gts1 and a continued payload byte
     <<180>>,         \* Gts2 header
     <<192, 129>>,    \* Lts, multi-byte, continued
     <<14, 66>>,      \* Exception and its first payload byte
     <<71>>,          \* DataTrace (PC match, len 4) header
     <<133>>,         \* DataTrace (data value, len 1) header
     <<78>>,          \* DataTrace (data address, len 2) header
     <<23>>,          \* PCSample, len 4, header
     <<5>>,           \* Event header
     <<29>>,          \* PMUOverflow header
     <<112, 112>>,    \* two Overflow packets
     <<0, 0, 0, 0, 0>>, \* the zeros of a sync sequence, its 0x80 in the next chunk
     <<128>>}         \* a lone 0x80

\* what one read of an OrbFlow stream delivers: COBS encoded OrbFlow packets
OflowReads ==
    {<<2, 1, 1, 1, 1, 1, 7, 128, 1, 34, 1, 35, 56, 0>>, \* stream 1: sync, two Instrumentation
     <<2, 1, 1, 1, 1, 1, 7, 128>>,                      \* its first part
     <<1, 34, 1, 35, 56, 0>>,                           \* its second part
     <<5, 1, 1, 36, 218, 0>>,                           \* stream 1: Instrumentation
     <<5, 1, 1, 36, 218, 0, 5, 1, 1, 36, 218, 0>>,      \* the same twice
     <<5, 2, 1, 37, 216, 0>>,                           \* stream 2
     <<5, 2, 1, 37, 216, 0, 5, 1, 1, 36, 218, 0>>,      \* stream 2, then stream 1
     <<5, 1, 1, 36, 1, 0>>}                             \* stream 1, bad checksum

\* the reads that carry one long OrbFlow packet of stream 2, all zeros but its stream
\* number and its checksum: the start, 64 more zeros, and the end after j more zeros
LongStart == <<2, 2>>

LongBody == Rep(1, 64)

LongEnd(j) == Rep(1, j) \o <<2, 254, 0>>

\* the numbers of zeros in the last read: with 127 reads of 64 zeros before it the
\* packet has 8191 to 8195 bytes
LongTails == {0, 60, 61, 62, 63, 64}

\* a short packet of stream 2 that follows the long one
LongNext == <<5, 2, 1, 37, 216, 0>>

\* the reads of a long packet and of its successor
LongReads == {LongStart, LongBody, LongNext} \cup {LongEnd(j) : j \in LongTails}

\* the most reads made of a long packet and its successor
MaxLongReads == 131

\* what one read of a raw ITM stream delivers
ItmReads ==
    {SyncSeq \o <<1, 34, 1, 35>>, <<1, 36>>, <<1>>, <<36>>}

\* kinds of error a read fails with
ReadErrors == {"Interrupted", "WouldBlock", "ConnectionReset"}

\* the call of process that returns false; 0: none does
FailAt == {0, 1, 3}

\* byte streams the caller reads in pieces
ItmStreams ==
    {SyncSeq \o <<28, 147, 17, 34, 51, 68>>,          \* page update, Instrumentation len 4
     SyncSeq \o <<148, 243, 146, 208, 79, 1, 34>>,    \* Gts1, Instrumentation len 1
     SyncSeq \o <<14, 66, 17, 112, 192, 129, 5>>,     \* Exception, Overflow, Lts
     <<1, 34>> \o SyncSeq \o <<255, 255, 255, 127>>, \* bytes while Unsynced, Sync, TPIU sync
     SyncSeq \o <<124, 249, 7>> \o <<0, 0, 0, 0, 0, 128>>}  \* page 224, a frame, Sync again

\* chunks of a stream of page register updates and Instrumentation packets
InstrChunks ==
    {SyncSeq,
     <<28>>,               \* page register := 32
     <<124>>,              \* page register := 224
     <<1>>, <<34>>,        \* Instrumentation, len 1, addr 0, header and payload apart
     <<249, 7>>,           \* Instrumentation, len 1, addr 31
     <<124, 249, 7>>,      \* page register := 224, then addr 31
     <<10, 5, 6>>,         \* Instrumentation, len 2, addr 1
     <<147, 17, 34>>,      \* Instrumentation, len 4, addr 18, first two payload bytes
     <<51, 68>>,           \* the last two payload bytes
     <<3, 255, 255>>,      \* Instrumentation, len 4, addr 0, payload FF FF ..
     <<255, 127>>}         \* .. FF 7F

\* chunks of a stream of global timestamp packets
GtsChunks ==
    {SyncSeq,
     <<180, 255, 255, 255, 255, 1>>,     \* Gts2: bits 0..28 set
     <<148, 66>>,                        \* Gts1, one payload byte
     <<148, 128, 1>>,                    \* Gts1, two payload bytes
     <<148, 129, 128, 2>>,               \* Gts1, three payload bytes
     <<148, 243, 146, 208, 79>>,         \* Gts1, four payload bytes, wrap set
     <<148, 243, 146, 208, 15>>,         \* Gts1, four payload bytes, wrap clear
     <<148, 243, 146, 208, 255, 34>>,    \* Gts1, five payload bytes
     <<148, 255, 255, 255, 127>>,        \* Gts1, payload FF FF FF 7F
     <<148, 243>>,                       \* Gts1, cut after the first payload byte
     <<146, 80>>}                        \* two more payload bytes

\* chunks of one whole packet each, among them the packets that write the page
\* register and the global timestamp
StickyChunks ==
    {SyncSeq, TpiuSeq,
     <<28>>,          \* Xtn short form: page register := 32
     <<60>>,          \* Xtn short form: page register := 96
     <<24>>,          \* Xtn short form, source clear: an Xtn frame
     <<148, 66>>,     \* Gts1, one payload byte
     <<180, 3>>,      \* Gts2, one payload byte
     <<1, 34>>,       \* Instrumentation, len 1
     <<192, 5>>,      \* Lts, one payload byte
     <<5, 9>>,        \* Event
     <<112>>}         \* Overflow

\* chunks of a stream of packets of fixed length, whole and cut
FixedChunks ==
    {SyncSeq,
     <<14, 66, 17>>,                  \* Exception
     <<14, 66>>, <<17>>,              \* Exception, cut before its last byte
     <<5, 9>>,                        \* Event
     <<29, 7>>,                       \* PMUOverflow
     <<21, 255>>,                     \* PCSample, len 1: sleep, prohibited
     <<21, 0>>,                       \* PCSample, len 1: sleep
     <<23, 1, 2, 3, 4>>,              \* PCSample, len 4
     <<23, 255, 255, 255, 127>>,      \* PCSample, len 4, payload FF FF FF 7F
     <<23, 1, 2>>,                    \* PCSample, len 4, cut
     <<1, 34>>,                       \* Instrumentation, len 1
     <<2, 1, 2>>,                     \* Instrumentation, len 2
     <<3, 1, 2, 3, 4>>,               \* Instrumentation, len 4
     <<133, 5>>,                      \* DataTrace, len 1
     <<78, 1, 2>>,                    \* DataTrace, len 2
     <<71, 1, 2, 3, 4>>}              \* DataTrace, len 4

\* chunks of a stream of extension packets
XtnChunks ==
    {SyncSeq,
     <<136, 34>>,                     \* one payload byte
     <<168, 147, 130, 35>>,           \* three payload bytes
     <<172, 147, 130, 35>>,           \* the same with source set
     <<136, 129, 130, 131, 4>>,       \* four payload bytes, the fourth with bit 7 clear
     <<136, 129, 130, 131, 132>>,     \* four payload bytes, the fourth with bit 7 set
     <<136, 255, 255, 255, 255, 1>>,  \* five payload bytes
     <<168, 147>>,                    \* cut after the first payload byte
     <<5>>,                           \* an Event header, or one more payload byte
     <<1, 34>>}                       \* an Instrumentation packet, or two payload bytes

\* chunks of a stream of data trace packets
DataTraceChunks ==
    {SyncSeq,
     <<85, 1>>,                       \* Match, index 1, bit 0 of the payload set
     <<85, 2>>,                       \* Match, index 1, bit 0 of the payload clear
     <<71, 1, 2, 3, 4>>,              \* PCMatch, index 0, len 4
     <<102, 17, 34>>,                 \* PCMatch, index 2, len 2
     <<78, 5, 6>>,                    \* DataAddrMatch, index 0, len 2
     <<125, 9>>,                      \* DataAddrMatch, index 3, len 1
     <<133, 7>>,                      \* DataValMatch, index 0, len 1, read
     <<175, 1, 2, 3, 4>>,             \* DataValMatch, index 2, len 4, write
     <<143, 255, 255, 255, 127>>,     \* DataValMatch, len 4, payload FF FF FF 7F
     <<71, 1, 2>>,                    \* PCMatch, len 4, cut after two payload bytes
     <<3, 4>>}                        \* the other two

\* chunks of a stream of local timestamp packets
LtsChunks ==
    {SyncSeq,
     <<32>>,                             \* single byte local timestamp
     <<192, 5>>,                         \* one payload byte, Sync
     <<208, 129, 1>>,                    \* two payload bytes, TSDelayed
     <<224, 255, 255, 127>>,             \* three payload bytes, DataDelayed
     <<240, 131, 130, 129, 127>>,        \* four payload bytes, BothDelayed
     <<240, 255, 255, 255, 254, 127>>,   \* five payload bytes
     <<192, 255, 255, 255, 127>>,        \* payload FF FF FF 7F
     <<208, 129>>,                       \* cut after the first payload byte
     <<130, 3>>}                         \* two more payload bytes

\* an option left out, or one of the values vs
Options(vs) == {None} \cup {Some(v) : v \in vs}

\* values of the input file, server and protocol options
UrlFiles == {<<"i", "s", "f", "i", "l", "e">>, <<"a", ":", "b">>, <<>>}

UrlServers ==
    {<<"a", "d", "d", "r", "e", "s", "s">>,
     <<"a", "d", "d", "r", "e", "s", "s", ":", "1", "2", "3", "4">>,
     <<":", ":", "1">>,
     <<"h", ":">>,
     <<>>}

UrlProtocols == {ITM_PREFIX, OFLOW_PREFIX, <<"a", "b", "c">>, <<"t", "t", "t">>, <<>>}

\* every byte value, as a header met in Idle
HeaderBytes == 0..255

\* the bytes that follow the header: one that ends a packet with continuation bits
\* and is an Instrumentation header of address 0, one with the continuation bit that
\* is an Instrumentation header of address 31
PayloadBytes == {1, 249}

\* the number of bytes fed after the header
MaxPayload == 6

(***************************************************************************)
(* Initial states                                                          *)
(***************************************************************************)
\* calculate_url has not been called
UrlIdleVars == url = [called |-> FALSE, input_file |-> None, server |-> None,
                      protocol |-> None, ret |-> <<>>]

\* no collector has been created
ColIdleVars == col = [mode |-> "None"] /\ UrlIdleVars

CobsIdleVars ==
    /\ cobs = CobsNew
    /\ op = <<>>
    /\ cap = 1
    /\ cobs_ret = [call |-> "new", arg |-> 0, ret |-> "None"]
    /\ vec_out = <<>>
    /\ ip = <<>>
    /\ prefix = <<>>
    /\ wire = <<>>
    /\ enc = [ret |-> "None", rest |-> <<>>, e |-> <<>>, d |-> 0]
    /\ cs = [iter |-> <<>>, fed |-> <<>>, pkts |-> <<>>]

OflowIdleVars ==
    /\ oflow = OFlowNew
    /\ of_in = [stream_number |-> 0, data |-> <<>>]
    /\ of_wire = [ret |-> "None", v |-> <<>>]
    /\ of_res = [ret |-> "None", frame |-> [stream_number |-> 0, inner |-> <<>>]]
    /\ of_pkt = <<>>
    /\ of_idx = [i |-> 0, ret |-> "None", v |-> 0]

ItmIdleVars ==
    /\ itm = ITMDecoderNew
    /\ itm_iter = <<>>
    /\ itm_chunk = <<>>
    /\ itm_res = [ret |-> "None", frame |-> NoFrame, consumed |-> 0]
    /\ itm_frames = <<>>
    /\ itm_syncs = 0
    /\ itm_supplied = 0
    /\ itm_recent = <<>>
    /\ its = [rest |-> <<>>, fed |-> <<>>, frames |-> <<>>]

\* a new COBS decoder and a caller's empty buffer; bytes arrive as a free stream
InitCobs ==
    /\ overflow_checks \in BOOLEAN
    /\ panicked = FALSE
    /\ cobs = CobsNew
    /\ op = <<>>
    /\ cap \in 1..MaxCap
    /\ cobs_ret = [call |-> "new", arg |-> 0, ret |-> "None"]
    /\ vec_out = <<>>
    /\ ip = <<>>
    /\ prefix = <<>>
    /\ wire = <<>>
    /\ enc = [ret |-> "None", rest |-> <<>>, e |-> <<>>, d |-> 0]
    /\ cs = [iter |-> <<>>, fed |-> <<>>, pkts |-> <<>>]
    /\ OflowIdleVars
    /\ ItmIdleVars
    /\ ColIdleVars

\* a decoder configured with a sentinel and a caller's empty buffer; bytes arrive in
\* chunks, each given to get_frame as an iterator
InitCobsFrame ==
    /\ overflow_checks \in BOOLEAN
    /\ panicked = FALSE
    /\ \E s \in CobsSentinels : cobs = set_sentinel(CobsNew, s, FALSE).self
    /\ op = <<>>
    /\ cap \in 1..MaxCap
    /\ cobs_ret = [call |-> "new", arg |-> 0, ret |-> "None"]
    /\ vec_out = <<>>
    /\ ip = <<>>
    /\ prefix = <<>>
    /\ wire = <<>>
    /\ enc = [ret |-> "None", rest |-> <<>>, e |-> <<>>, d |-> 0]
    /\ cs = [iter |-> <<>>, fed |-> <<>>, pkts |-> <<>>]
    /\ OflowIdleVars
    /\ ItmIdleVars
    /\ ColIdleVars

\* an encoder and a fresh decoder configured with the same sentinel; the wire carries
\* the encoded payload, possibly behind a packet cut short
InitCobsWire ==
    /\ overflow_checks \in BOOLEAN
    /\ panicked = FALSE
    /\ \E s \in Sentinels : cobs = set_sentinel(CobsNew, s, FALSE).self
    /\ op = <<>>
    /\ ip \in Payloads
    /\ cap \in {Len(ip), Len(ip) + 1}
    /\ cobs_ret = [call |-> "new", arg |-> 0, ret |-> "None"]
    /\ vec_out = <<>>
    /\ prefix \in Prefixes(cobs.sentinel)
    /\ wire = <<>>
    /\ enc = cobs_encode_start(cobs, ip)
    /\ cs = [iter |-> <<>>, fed |-> <<>>, pkts |-> <<>>]
    /\ OflowIdleVars
    /\ ItmIdleVars
    /\ ColIdleVars

\* a new OFlow object and a stream number and payload to encode
InitOflow ==
    /\ overflow_checks \in BOOLEAN
    /\ panicked = FALSE
    /\ CobsIdleVars
    /\ oflow = OFlowNew
    /\ of_in \in [stream_number : Streams, data : OfPayloads]
    /\ of_wire = [ret |-> "None", v |-> <<>>]
    /\ of_res = [ret |-> "None", frame |-> [stream_number |-> 0, inner |-> <<>>]]
    /\ of_pkt = <<>>
    /\ of_idx = [i |-> 0, ret |-> "None", v |-> 0]
    /\ ItmIdleVars
    /\ ColIdleVars

\* a new OFlow object, packets arriving from the layer below
InitOflowDec ==
    /\ overflow_checks \in BOOLEAN
    /\ panicked = FALSE
    /\ CobsIdleVars
    /\ OflowIdleVars
    /\ ItmIdleVars
    /\ ColIdleVars

\* an ITM decoder that has consumed a sync sequence and is in Idle
InitItmIdle ==
    /\ overflow_checks \in BOOLEAN
    /\ panicked = FALSE
    /\ CobsIdleVars
    /\ OflowIdleVars
    /\ ColIdleVars
    /\ itm = itm_get_frame(ITMDecoderNew, SyncSeq).d
    /\ itm_iter = <<>>
    /\ itm_chunk = SyncSeq
    /\ itm_res = [ret |-> "Ok", frame |-> [frame |-> "Sync", count |-> 1],
                  consumed |-> Len(SyncSeq)]
    /\ itm_frames = <<[frame |-> "Sync", count |-> 1]>>
    /\ itm_syncs = 1
    /\ itm_supplied = 1
    /\ itm_recent = SyncSeq
    /\ its = [rest |-> <<>>, fed |-> <<>>, frames |-> <<>>]

\* a new ITM decoder and a byte stream its caller will read piece by piece
InitItmSplit ==
    /\ overflow_checks \in BOOLEAN
    /\ panicked = FALSE
    /\ CobsIdleVars
    /\ OflowIdleVars
    /\ itm = ITMDecoderNew
    /\ itm_iter = <<>>
    /\ itm_chunk = <<>>
    /\ itm_res = [ret |-> "None", frame |-> NoFrame, consumed |-> 0]
    /\ itm_frames = <<>>
    /\ itm_syncs = 0
    /\ itm_supplied = 0
    /\ itm_recent = <<>>
    /\ \E st \in ItmStreams : its = [rest |-> st, fed |-> <<>>, frames |-> <<>>]
    /\ ColIdleVars

\* new_collector has returned a collector for an OrbFlow or a raw ITM source; the
\* handler is the one whose process returns false on call number fail_at
InitCollect ==
    /\ overflow_checks \in BOOLEAN
    /\ panicked = FALSE
    /\ cobs = CobsNew
    /\ op = <<>>
    /\ cap = MAX_PACKET_LEN
    /\ cobs_ret = [call |-> "new", arg |-> 0, ret |-> "None"]
    /\ vec_out = <<>>
    /\ ip = <<>>
    /\ prefix = <<>>
    /\ wire = <<>>
    /\ enc = [ret |-> "None", rest |-> <<>>, e |-> <<>>, d |-> 0]
    /\ cs = [iter |-> <<>>, fed |-> <<>>, pkts |-> <<>>]
    /\ OflowIdleVars
    /\ ItmIdleVars
    /\ \E m \in {"OFlow", "ITM"}, f \in FailAt :
          col = [mode |-> m, stream_number |-> 1, fail_at |-> f, running |-> FALSE,
                 ret |-> "None", reads |-> 0, read |-> "None", calls |-> 0,
                 failed |-> FALSE, inds |-> <<>>, frames |-> <<>>,
                 passed |-> <<>>, stream |-> <<>>, decoded |-> <<>>]
    /\ UrlIdleVars

\* a collector in OrbFlow mode, its handler never refusing a frame
InitCollectLong ==
    /\ overflow_checks \in BOOLEAN
    /\ panicked = FALSE
    /\ cobs = CobsNew
    /\ op = <<>>
    /\ cap = MAX_PACKET_LEN
    /\ cobs_ret = [call |-> "new", arg |-> 0, ret |-> "None"]
    /\ vec_out = <<>>
    /\ ip = <<>>
    /\ prefix = <<>>
    /\ wire = <<>>
    /\ enc = [ret |-> "None", rest |-> <<>>, e |-> <<>>, d |-> 0]
    /\ cs = [iter |-> <<>>, fed |-> <<>>, pkts |-> <<>>]
    /\ OflowIdleVars
    /\ ItmIdleVars
    /\ col = [mode |-> "OFlow", stream_number |-> 1, fail_at |-> 0, running |-> FALSE,
              ret |-> "None", reads |-> 0, read |-> "None", calls |-> 0,
              failed |-> FALSE, inds |-> <<>>, frames |-> <<>>,
              passed |-> <<>>, stream |-> <<>>, decoded |-> <<>>]
    /\ UrlIdleVars

\* the command line options from which the connection url is made
InitUrl ==
    /\ overflow_checks \in BOOLEAN
    /\ panicked = FALSE
    /\ CobsIdleVars
    /\ OflowIdleVars
    /\ ItmIdleVars
    /\ col = [mode |-> "None"]
    /\ \E f \in Options(UrlFiles), s \in Options(UrlServers), p \in Options(UrlProtocols) :
          url = [called |-> FALSE, input_file |-> f, server |-> s, protocol |-> p,
                 ret |-> <<>>]

\* a new ITM decoder
InitItm ==
    /\ overflow_checks \in BOOLEAN
    /\ panicked = FALSE
    /\ CobsIdleVars
    /\ OflowIdleVars
    /\ ItmIdleVars
    /\ ColIdleVars

(***************************************************************************)
(* COBS actions                                                            *)
(***************************************************************************)
\* get_byte returned Ok and the caller still holds the completed packet in op
PendingPacket == cobs_ret.call \in {"get_byte"} /\ cobs_ret.ret = "Ok"

\* the caller passes one byte to get_byte
CobsGetByte(c) ==
    /\ ~panicked
    /\ ~PendingPacket
    /\ cobs.inbytes < MaxCobsIn
    /\ LET r == get_byte(cobs, c, op, cap)
       IN  /\ cobs' = r.self
           /\ op' = r.op
           /\ cobs_ret' = [call |-> "get_byte", arg |-> c, ret |-> r.ret]
           /\ panicked' = (r.ret = "Panic")
    /\ UNCHANGED <<overflow_checks, cap, vec_out, ip, prefix, wire, enc, oflow_vars, itm_vars, cs, col, url>>

\* the caller takes the completed packet and supplies an empty buffer for the next
CobsHandOff ==
    /\ ~panicked
    /\ PendingPacket
    /\ op' = <<>>
    /\ cobs_ret' = [call |-> "take", arg |-> 0, ret |-> "None"]
    /\ UNCHANGED <<overflow_checks, panicked, cobs, cap, vec_out, ip, prefix, wire, enc,
                   oflow_vars, itm_vars, cs, col, url>>

\* the caller, holding no partial packet of its own, calls get_frame_as_vec
CobsGetFrameAsVec(iter) ==
    /\ ~panicked
    /\ ~PendingPacket
    /\ op = <<>>
    /\ cobs.inbytes + Len(iter) <= MaxCobsIn
    /\ LET r == get_frame_as_vec(cobs, iter)
       IN  /\ cobs' = r.self
           /\ vec_out' = r.op
           /\ cobs_ret' = [call |-> "get_frame_as_vec", arg |-> Len(iter) - Len(r.iter),
                           ret |-> r.ret]
           /\ panicked' = (r.ret = "Panic")
    /\ UNCHANGED <<overflow_checks, op, cap, ip, prefix, wire, enc, oflow_vars, itm_vars, cs, col, url>>

\* the caller changes the sentinel
CobsSetSentinel(s, force) ==
    /\ ~panicked
    /\ ~PendingPacket
    /\ LET r == set_sentinel(cobs, s, force)
       IN  /\ cobs' = r.self
           /\ cobs_ret' = [call |-> "set_sentinel", arg |-> [s |-> s, force |-> force],
                           ret |-> r.ret]
    /\ UNCHANGED <<overflow_checks, panicked, op, cap, vec_out, ip, prefix, wire, enc,
                   oflow_vars, itm_vars, cs, col, url>>

\* cobs_encode runs one iteration of its loop
CobsEncodeStep ==
    /\ enc.ret = "Loop"
    /\ enc.rest # <<>>
    /\ enc' = cobs_encode_step(cobs, enc)
    /\ UNCHANGED <<overflow_checks, panicked, cobs, op, cap, cobs_ret, vec_out, ip, prefix,
                   wire, oflow_vars, itm_vars, cs, col, url>>

\* cobs_encode returns; the packet goes on the wire behind the prefix
CobsEncodeEnd ==
    /\ enc.ret = "Loop"
    /\ enc.rest = <<>>
    /\ enc' = cobs_encode_end(cobs, enc)
    /\ wire' = prefix \o enc'.e
    /\ UNCHANGED <<overflow_checks, panicked, cobs, op, cap, cobs_ret, vec_out, ip, prefix,
                   oflow_vars, itm_vars, cs, col, url>>

\* the next byte of the wire goes through get_byte
CobsFeedWire ==
    /\ ~panicked
    /\ ~PendingPacket
    /\ enc.ret = "Ok"
    /\ wire # <<>>
    /\ LET r == get_byte(cobs, Head(wire), op, cap)
       IN  /\ cobs' = r.self
           /\ op' = r.op
           /\ cobs_ret' = [call |-> "get_byte", arg |-> Head(wire), ret |-> r.ret]
           /\ panicked' = (r.ret = "Panic")
    /\ wire' = Tail(wire)
    /\ UNCHANGED <<overflow_checks, cap, vec_out, ip, prefix, enc, oflow_vars, itm_vars, cs, col, url>>

\* the caller calls get_frame with its buffer: on the iterator it still holds, else on
\* an iterator over the next chunk; a completed packet is taken and replaced by an
\* empty buffer
CobsGetFrame(chunk) ==
    /\ ~panicked
    /\ IF cs.iter = <<>> THEN cobs.inbytes + Len(chunk) <= MaxCobsIn ELSE chunk = <<>>
    /\ LET r == get_frame(cobs, IF cs.iter = <<>> THEN chunk ELSE cs.iter, op, cap)
           n == Len(IF cs.iter = <<>> THEN chunk ELSE cs.iter) - Len(r.iter)
       IN  /\ cobs' = r.self
           /\ op' = IF r.ret = "Ok" THEN <<>> ELSE r.op
           /\ cs' = [iter |-> r.iter,
                     fed  |-> cs.fed \o SubSeq(IF cs.iter = <<>> THEN chunk ELSE cs.iter, 1, n),
                     pkts |-> IF r.ret = "Ok" THEN Append(cs.pkts, r.op) ELSE cs.pkts]
           /\ cobs_ret' = [call |-> "get_frame", arg |-> n, ret |-> r.ret]
           /\ panicked' = (r.ret = "Panic")
    /\ UNCHANGED <<overflow_checks, cap, vec_out, ip, prefix, wire, enc, oflow_vars, itm_vars, col, url>>

NextCobsFrame == \E chunk \in SeqsOf(FrameBytes, 0, MaxIter) : CobsGetFrame(chunk)

SpecCobsFrame == InitCobsFrame /\ [][NextCobsFrame]_vars

NextCobs ==
    \/ \E c \in CobsBytes : CobsGetByte(c)
    \/ CobsHandOff
    \/ \E iter \in SeqsOf(CobsBytes, 0, MaxIter) : CobsGetFrameAsVec(iter)
    \/ \E s \in CobsSentinels, force \in BOOLEAN : CobsSetSentinel(s, force)

SpecCobs == InitCobs /\ [][NextCobs]_vars

NextCobsWire == CobsEncodeStep \/ CobsEncodeEnd \/ CobsFeedWire

SpecCobsWire == InitCobsWire /\ [][NextCobsWire]_vars

(***************************************************************************)
(* Properties of the COBS framer                                           *)
(***************************************************************************)
\* C1: with nothing ahead of it on the wire, the output of cobs_encode fed byte by byte
\* to a fresh decoder with the same sentinel and a buffer of capacity >= |P| never
\* faults, returns Ok (a complete packet) on the last encoded byte and on no earlier
\* one, and leaves the payload in the buffer.
C1_RoundTrip ==
    (prefix = <<>> /\ enc.ret = "Ok") =>
        /\ ~panicked
        /\ (cobs_ret.ret = "Ok") <=> (wire = <<>>)
        /\ wire = <<>> => op = ip

\* C29: the packet cobs_encode produces is never longer than max_possible_enc_len of
\* the length of its input.
C29_EncodedLength ==
    enc.ret = "Ok" => Len(enc.e) <= max_possible_enc_len(Len(ip))

\* C5 as stated: whenever no completed packet awaits hand-off, in_bytes equals
\* good_bytes + bad_bytes + the number of bytes in the open packet buffer.
C5_Equality ==
    ~PendingPacket => cobs.inbytes = cobs.goodbytes + cobs.badbytes + Len(op)

\* C5, amended: whenever no completed packet awaits hand-off, in_bytes is at least
\* good_bytes + bad_bytes + the number of bytes in the open packet buffer (run-length
\* and sentinel bytes are counted in in_bytes alone).
C5_Accounting ==
    ~PendingPacket => cobs.inbytes >= cobs.goodbytes + cobs.badbytes + Len(op)

\* a packet was completed and handed off, and the next one is open with a byte stored
C5_Witness ==
    /\ ~PendingPacket
    /\ cobs.goodbytes > 0
    /\ cobs.state = "Rxing"
    /\ Len(op) > 0
    /\ cobs.inbytes > cobs.goodbytes + cobs.badbytes + Len(op)

\* C6: in every state good_bytes + bad_bytes is at most in_bytes, also after
\* get_frame_as_vec has abandoned a partial packet on ShortData.
C6_Bound == cobs.goodbytes + cobs.badbytes <= cobs.inbytes

\* get_frame_as_vec ran out of data with bytes stored and counted them as bad
C6_Witness ==
    /\ cobs_ret.call = "get_frame_as_vec"
    /\ cobs_ret.ret = "ShortData"
    /\ Len(vec_out) > 0
    /\ cobs.badbytes >= Len(vec_out)
    /\ cobs.state = "Flushing"

\* C7: the decoder never faults, and the run counter is at least 1 whenever the
\* decoder is in Rxing.
C7_RunCounter ==
    /\ ~panicked
    /\ cobs.state = "Rxing" => cobs.rxc >= 1

\* C8: a sentinel byte given to get_byte leaves the decoder in Idle, except that from
\* Rxing it may leave it in Flushing, from where the next sentinel leads to Idle; so
\* two consecutive sentinels always reach Idle, and Idle is stable under sentinels.
C8_SentinelIdle ==
    [][(/\ cobs_ret'.call = "get_byte"
        /\ cobs'.inbytes = cobs.inbytes + 1
        /\ cobs_ret'.arg = cobs.sentinel)
       => (cobs'.state = "Idle" \/ (cobs.state = "Rxing" /\ cobs'.state = "Flushing"))]_vars

\* the table's append of byte b: the byte goes to the end of the buffer, or, the
\* buffer being full, the buffer is dropped and the decoder goes to Flushing
TableAppend(b) ==
    IF Len(op) < cap
    THEN op' = Append(op, b) /\ cobs'.state = "Rxing"
    ELSE op' = <<>> /\ cobs'.state = "Flushing"

\* the row of the transition table for the state of the decoder and the byte c
TableRow(c) ==
    CASE cobs.state = "Idle" ->
           IF c = cobs.sentinel
           THEN cobs'.state = "Idle" /\ cobs'.rxc = cobs.rxc
                   /\ cobs'.maxcount = cobs.maxcount /\ op' = op
           ELSE cobs'.state = "Rxing" /\ cobs'.rxc = c
                   /\ cobs'.maxcount = (c = 255) /\ op' = op
      [] cobs.state = "Rxing" ->
           IF c = cobs.sentinel
           THEN IF cobs.rxc = 1
                THEN cobs'.state = "Idle" /\ cobs_ret'.ret = "Ok" /\ op' = op
                ELSE cobs'.state = "Flushing" /\ op' = <<>>
                        /\ cobs'.badbytes = cobs.badbytes + Len(op)
           ELSE IF cobs.rxc # 1
                THEN /\ cobs'.rxc = (cobs.rxc - 1) % 256
                     /\ cobs'.maxcount = cobs.maxcount
                     /\ TableAppend(c)
                ELSE /\ cobs'.rxc = c
                     /\ cobs'.maxcount = (c = 255)
                     /\ IF cobs.maxcount THEN op' = op /\ cobs'.state = "Rxing"
                        ELSE TableAppend(cobs.sentinel)
      [] cobs.state = "Flushing" ->
           IF c = cobs.sentinel
           THEN cobs'.state = "Idle" /\ op' = op /\ cobs'.badbytes = cobs.badbytes
           ELSE cobs'.state = "Flushing" /\ op' = op
                   /\ cobs'.badbytes = cobs.badbytes + 1

\* C31: every get_byte call follows the transition table. Idle: the sentinel stays
\* in Idle, another byte becomes the run counter, sets the flag of a maximal run and
\* leads to Rxing. Rxing: the sentinel with a run counter of 1 completes the packet
\* and leads to Idle, the sentinel otherwise drops the buffer into bad_bytes and leads
\* to Flushing; another byte is appended while the run lasts, and at the end of the
\* run a sentinel is appended, unless the run was maximal, and the byte is the new
\* run counter. Flushing: the sentinel leads to Idle, another byte is discarded and
\* counted in bad_bytes.
C31_Table ==
    [][(cobs_ret'.call = "get_byte" /\ cobs'.inbytes = cobs.inbytes + 1)
       => (~panicked' /\ TableRow(cobs_ret'.arg))]_vars

\* in Rxing the byte c is one to append: it is not the sentinel, and it does not end
\* a maximal run
AppendDue(c) ==
    /\ cobs.state = "Rxing"
    /\ c # cobs.sentinel
    /\ ~(cobs.rxc = 1 /\ cobs.maxcount)

\* C32: a get_byte call that returns, having a byte to append to a buffer already at capacity
\* clears the buffer, adds 1 to too_long and the length of the buffer to bad_bytes and
\* leaves the decoder in Flushing; too_long changes in no other call; from Flushing
\* no call returns a packet, and only the sentinel leaves Flushing; the buffer is
\* never longer than its capacity.
C32_Overflow ==
    [][/\ Len(op') <= cap
       /\ (cobs_ret'.call = "get_byte" /\ cobs'.inbytes = cobs.inbytes + 1 /\ ~panicked') =>
             /\ (AppendDue(cobs_ret'.arg) /\ Len(op) = cap) =>
                   /\ op' = <<>>
                   /\ cobs'.toolong = cobs.toolong + 1
                   /\ cobs'.badbytes = cobs.badbytes + Len(op)
                   /\ cobs'.state = "Flushing"
                   /\ cobs_ret'.ret = "Ongoing"
             /\ cobs'.toolong # cobs.toolong => (AppendDue(cobs_ret'.arg) /\ Len(op) = cap)
             /\ cobs.state = "Flushing" =>
                   /\ cobs_ret'.ret # "Ok"
                   /\ cobs_ret'.arg # cobs.sentinel => cobs'.state = "Flushing"]_vars

\* a buffer of two bytes dropped on the third
C32_Witness ==
    /\ cobs_ret.call = "get_byte"
    /\ cap = 2
    /\ op = <<>>
    /\ cobs.toolong = 1
    /\ cobs.badbytes = 2
    /\ cobs.state = "Flushing"

\* C16: a get_frame call in which the packet being assembled outgrows the capacity of
\* the output buffer returns the error Overlong.
C16_Overlong ==
    [][(cobs_ret'.call = "get_frame" /\ cobs'.toolong > cobs.toolong)
       => cobs_ret'.ret = "Overlong"]_vars

\* the decoder, the open buffer and the packets received agree with the run w
SameAsRun(w) ==
    /\ cobs = w.self
    /\ op = w.op
    /\ cs.pkts = w.pkts
    /\ panicked = (w.ret = "Panic")

\* C17: the bytes consumed so far, however they were split over get_frame calls that
\* reuse the caller's buffer, have produced the packets, the partial packet and the
\* statistics that one iterator over the same bytes produces.
C17_Resumable ==
    SameAsRun(get_frames(set_sentinel(CobsNew, cobs.sentinel, FALSE).self, cs.fed, <<>>, cap, <<>>))

\* a two byte packet completed by a call that consumed only its last byte
C17_Witness ==
    /\ cs.fed = <<2, 1, 1, 0>>
    /\ cs.pkts = << <<1, 0>> >>
    /\ cobs_ret.call = "get_frame"
    /\ cobs_ret.ret = "Ok"
    /\ cobs_ret.arg = 1
    /\ cobs.packets = 1

\* C19: set_sentinel without force changes the sentinel only while the decoder is Idle
\* and in every other state returns Busy and changes nothing; with force it always
\* succeeds; a successful call changes the sentinel and nothing else of the decoder.
C19_SetSentinel ==
    [][cobs_ret'.call = "set_sentinel" =>
        IF cobs_ret'.arg.force \/ cobs.state = "Idle"
        THEN /\ cobs_ret'.ret = "Ok"
             /\ cobs' = [cobs EXCEPT !.sentinel = cobs_ret'.arg.s]
        ELSE /\ cobs_ret'.ret = "Busy"
             /\ cobs' = cobs]_vars

\* C9: when the wire carries a packet cut short by a sentinel and then a well-formed
\* encoded packet, the decoder returns that packet Complete with its payload.
C9_Resync ==
    (prefix # <<>> /\ enc.ret = "Ok" /\ wire = <<>>) =>
        /\ cobs_ret.ret = "Ok"
        /\ op = ip

(***************************************************************************)
(* OrbFlow actions                                                         *)
(***************************************************************************)
\* encode_to_vec on the chosen stream number and payload
OflowEncode ==
    /\ ~panicked
    /\ of_wire.ret = "None"
    /\ of_wire' = encode_to_vec(of_in.stream_number, of_in.data)
    /\ panicked' = (of_wire'.ret = "Panic")
    /\ UNCHANGED <<overflow_checks, cobs_vars, oflow, of_in, of_res, of_pkt, of_idx,
                   itm_vars, col, url>>

\* decode on the encoded vector
OflowDecode ==
    /\ ~panicked
    /\ of_wire.ret = "Ok"
    /\ of_res.ret = "None"
    /\ LET r == decode(oflow, of_wire.v)
       IN  /\ oflow' = r.self
           /\ of_res' = [ret |-> r.ret, frame |-> r.frame]
    /\ UNCHANGED <<overflow_checks, panicked, cobs_vars, of_in, of_wire, of_pkt, of_idx,
                   itm_vars, col, url>>

\* frame[i] on the decoded frame
OflowIndex(i) ==
    /\ ~panicked
    /\ of_res.ret = "Ok"
    /\ of_idx.ret = "None"
    /\ of_idx' = [i |-> i] @@ index(of_res.frame, i)
    /\ panicked' = (of_idx'.ret = "Panic")
    /\ UNCHANGED <<overflow_checks, cobs_vars, oflow, of_in, of_wire, of_res, of_pkt,
                   itm_vars, col, url>>

NextOflow == OflowEncode \/ OflowDecode \/ \E i \in 0..MaxIndex : OflowIndex(i)

SpecOflow == InitOflow /\ [][NextOflow]_vars

\* decode has returned r
OflowDecoded(r) ==
    /\ oflow' = r.self
    /\ of_res' = [ret |-> r.ret, frame |-> r.frame]

\* the layer below hands a packet to decode
OflowDecodePacket(pkt) ==
    /\ ~panicked
    /\ oflow.inpackets + oflow.inerrpackets < MaxDecodes
    /\ OflowDecoded(decode(oflow, pkt))
    /\ of_pkt' = pkt
    /\ UNCHANGED <<overflow_checks, panicked, cobs_vars, of_in, of_wire, of_idx, itm_vars, col, url>>

NextOflowDec == \E pkt \in OfPackets : OflowDecodePacket(pkt)

SpecOflowDec == InitOflowDec /\ [][NextOflowDec]_vars

(***************************************************************************)
(* Properties of the OrbFlow encoder and decoder                           *)
(***************************************************************************)
\* C2: encode_to_vec succeeds on every stream number and payload, and decode of its
\* output succeeds with a frame of that stream number whose content is the payload.
C2_RoundTrip ==
    /\ ~panicked
    /\ of_wire.ret \in {"None", "Ok"}
    /\ of_res.ret # "None" =>
          /\ of_res.ret = "Ok"
          /\ of_res.frame.stream_number = of_in.stream_number
          /\ content(of_res.frame) = of_in.data

\* C22: get_checksum completes on every stream number and payload, sums above 255
\* included, and returns (256 - ((stream + sum of payload) mod 256)) mod 256, the byte
\* that encode_to_vec writes last.
C22_Checksum ==
    of_wire.ret \in {"Ok", "Panic"} =>
        /\ of_wire.ret = "Ok"
        /\ of_wire.v[Len(of_wire.v)] =
               (256 - ((of_in.stream_number + SeqSum(of_in.data)) % 256)) % 256

\* C23: indexed access to a decoded frame is confined to the payload: frame[i] is
\* content()[i] for every i below the length of the content, and every other index
\* is rejected with a panic.
C23_Index ==
    of_idx.ret # "None" =>
        IF of_idx.i < Len(content(of_res.frame))
        THEN of_idx.ret = "Ok" /\ of_idx.v = content(of_res.frame)[of_idx.i + 1]
        ELSE of_idx.ret = "Panic"

\* C11: every decode call has exactly one outcome, decided in this order: ShortData
\* iff the packet has fewer than 3 bytes, else Overlong iff it has more than 8194, else
\* BadChecksum iff its bytes do not sum to 0 mod 256, else success; a failing call adds
\* one to inerrpackets and leaves inpackets and inbytestotal as they were.
C11_Classification ==
    [][oflow' # oflow =>
        /\ (of_res'.ret = "ShortData") <=> (Len(of_pkt') < 3)
        /\ (of_res'.ret = "Overlong") <=> (Len(of_pkt') >= 3 /\ Len(of_pkt') > 8194)
        /\ (of_res'.ret = "BadChecksum") <=>
              (Len(of_pkt') >= 3 /\ Len(of_pkt') <= 8194 /\ SeqSum(of_pkt') % 256 # 0)
        /\ (of_res'.ret = "Ok") <=>
              (Len(of_pkt') >= 3 /\ Len(of_pkt') <= 8194 /\ SeqSum(of_pkt') % 256 = 0)
        /\ of_res'.ret # "Ok" =>
              /\ oflow'.inerrpackets = oflow.inerrpackets + 1
              /\ oflow'.inpackets = oflow.inpackets
              /\ oflow'.inbytestotal = oflow.inbytestotal]_vars

\* a packet one byte over the maximum is refused after an earlier packet was accepted
C11_Witness ==
    /\ of_res.ret = "Overlong"
    /\ Len(of_pkt) = 8195
    /\ oflow.inpackets = 1
    /\ oflow.inerrpackets = 1

\* C12: a frame returned by decode comes from a packet whose bytes sum to 0 mod 256 and
\* whose length is in 3..8194; its stream number is the first byte, its content the
\* packet without first and last byte; inpackets grows by 1 and inbytestotal by the
\* length of the content.
C12_DecodedFrame ==
    [][(oflow' # oflow /\ of_res'.ret = "Ok") =>
        /\ SeqSum(of_pkt') % 256 = 0
        /\ 2 < Len(of_pkt') /\ Len(of_pkt') <= 8194
        /\ of_res'.frame.stream_number = of_pkt'[1]
        /\ content(of_res'.frame) = SubSeq(of_pkt', 2, Len(of_pkt') - 1)
        /\ oflow'.inpackets = oflow.inpackets + 1
        /\ oflow'.inbytestotal = oflow.inbytestotal + Len(of_pkt') - 2]_vars

\* a frame decoded from a packet of the maximum length, after a three byte one
C12_Witness ==
    /\ of_res.ret = "Ok"
    /\ Len(of_pkt) = 8194
    /\ oflow.inpackets = 2
    /\ oflow.inbytestotal = 8192 + 1

(***************************************************************************)
(* Collector actions                                                       *)
(***************************************************************************)
\* collect_data is called: state_ind(NoError), then the loop
CollectStart ==
    /\ ~col.running
    /\ col' = [col EXCEPT !.running = TRUE, !.inds = <<"NoError">>]
    /\ UNCHANGED <<overflow_checks, panicked, cobs_vars, oflow_vars, itm_vars, url>>

\* collect_data is in its loop and has not returned
Collecting == col.running /\ col.ret = "None" /\ ~panicked /\ col.reads < MaxReads

\* one turn of the loop: the read fails
CollectReadError(kind) ==
    /\ Collecting
    /\ IF ReadRetries(kind)
       THEN col' = [col EXCEPT !.reads = @ + 1, !.read = kind, !.inds = <<>>,
                               !.frames = <<>>, !.decoded = <<>>]
       ELSE col' = [col EXCEPT !.reads = @ + 1, !.read = kind, !.inds = <<"IoError">>,
                               !.frames = <<>>, !.decoded = <<>>, !.ret = "IoError"]
    /\ UNCHANGED <<overflow_checks, panicked, cobs_vars, oflow_vars, itm_vars, url>>

\* one turn of the loop: the read returns no bytes
CollectReadZero ==
    /\ Collecting
    /\ col' = [col EXCEPT !.reads = @ + 1, !.read = "Zero", !.inds = <<"Reset">>,
                          !.frames = <<>>, !.decoded = <<>>, !.ret = "Reset"]
    /\ UNCHANGED <<overflow_checks, panicked, cobs_vars, oflow_vars, itm_vars, url>>

\* the while loop over the bytes of a read has ended in st
CollectOflowDone(st, bytes) ==
    /\ cobs' = st.cobs
    /\ op' = st.pp
    /\ oflow' = st.oflow
    /\ itm' = st.itm
    /\ panicked' = st.panic
    /\ col' = [col EXCEPT !.reads = @ + 1, !.read = "Data", !.calls = st.h.calls,
                          !.failed = st.h.failed, !.frames = st.frames,
                          !.decoded = st.decoded,
                          !.passed = st.h.passed, !.stream = @ \o bytes,
                          !.inds = IF st.panic THEN st.h.inds ELSE Append(st.h.inds, "NoError")]

\* one turn of the loop in OrbFlow mode: the read returns bytes
CollectReadOflow(bytes) ==
    /\ Collecting
    /\ col.mode = "OFlow"
    /\ CollectOflowDone(collect_oflow([cobs |-> cobs, pp |-> op, oflow |-> oflow, itm |-> itm,
                                       h |-> [calls |-> col.calls, failed |-> col.failed,
                                              inds |-> <<>>, passed |-> col.passed],
                                       frames |-> <<>>, decoded |-> <<>>,
                                       panic |-> FALSE],
                                      bytes, col),
                        bytes)
    /\ UNCHANGED <<overflow_checks, cap, cobs_ret, vec_out, ip, prefix, wire, enc, cs,
                   of_in, of_wire, of_res, of_pkt, of_idx,
                   itm_iter, itm_chunk, itm_res, itm_frames, itm_syncs, itm_supplied,
                   itm_recent, its, url>>

\* itm_process has returned p to the loop in ITM mode: an error starts the next turn
CollectItmDone(p, bytes) ==
    /\ itm' = p.d
    /\ panicked' = (p.ret = "Panic")
    /\ col' = [col EXCEPT !.reads = @ + 1, !.read = "Data", !.calls = p.h.calls,
                          !.failed = p.h.failed, !.inds = p.h.inds, !.frames = <<>>,
                          !.decoded = <<>>,
                          !.passed = p.h.passed, !.stream = @ \o bytes]

\* one turn of the loop in ITM mode: the read returns bytes
CollectReadItm(bytes) ==
    /\ Collecting
    /\ col.mode = "ITM"
    /\ CollectItmDone(itm_process(itm, bytes,
                                  [calls |-> col.calls, failed |-> col.failed, inds |-> <<>>,
                                   passed |-> col.passed],
                                  col.fail_at),
                      bytes)
    /\ UNCHANGED <<overflow_checks, cobs_vars, oflow_vars,
                   itm_iter, itm_chunk, itm_res, itm_frames, itm_syncs, itm_supplied,
                   itm_recent, its, url>>

\* calculate_url on the options given
CalculateUrl ==
    /\ ~url.called
    /\ url' = [url EXCEPT !.called = TRUE,
                          !.ret = calculate_url(url.input_file, url.server, url.protocol)]
    /\ UNCHANGED <<overflow_checks, panicked, cobs_vars, oflow_vars, itm_vars, col>>

NextUrl == CalculateUrl

SpecUrl == InitUrl /\ [][NextUrl]_vars

\* the long packet has ended with the bytes read so far
LongEnded(stream) ==
    Len(stream) > Len(LongStart) /\ SubSeq(stream, Len(stream) - 2, Len(stream)) = LongEnd(0)

\* the stream may go on with bytes: the start comes first, zeros and the end follow
\* it, and the short packet follows the end
LongOrder(stream, bytes) ==
    IF stream = <<>> THEN bytes = LongStart
    ELSE IF LongEnded(stream) THEN bytes = LongNext
    ELSE stream[Len(stream)] # 0 /\ bytes \notin {LongStart, LongNext}

\* one turn of the loop in OrbFlow mode: the read returns bytes of the long packet
CollectReadLong(bytes) ==
    /\ col.running /\ col.ret = "None" /\ ~panicked /\ col.reads < MaxLongReads
    /\ col.mode = "OFlow"
    /\ LongOrder(col.stream, bytes)
    /\ CollectOflowDone(collect_oflow([cobs |-> cobs, pp |-> op, oflow |-> oflow, itm |-> itm,
                                       h |-> [calls |-> col.calls, failed |-> col.failed,
                                              inds |-> <<>>, passed |-> col.passed],
                                       frames |-> <<>>, decoded |-> <<>>,
                                       panic |-> FALSE],
                                      bytes, col),
                        bytes)
    /\ UNCHANGED <<overflow_checks, cap, cobs_ret, vec_out, ip, prefix, wire, enc, cs,
                   of_in, of_wire, of_res, of_pkt, of_idx,
                   itm_iter, itm_chunk, itm_res, itm_frames, itm_syncs, itm_supplied,
                   itm_recent, its, url>>

NextCollectLong ==
    \/ CollectStart
    \/ \E bytes \in LongReads : CollectReadLong(bytes)

SpecCollectLong == InitCollectLong /\ [][NextCollectLong]_vars

NextCollect ==
    \/ CollectStart
    \/ \E kind \in ReadErrors : CollectReadError(kind)
    \/ CollectReadZero
    \/ \E bytes \in OflowReads : CollectReadOflow(bytes)
    \/ \E bytes \in ItmReads : CollectReadItm(bytes)

SpecCollect == InitCollect /\ [][NextCollect]_vars

\* C13: when process returns false, collect_data calls state_ind(ProcessingFailed),
\* passes no further frame to the handler, reads no more and returns
\* ProcessingFailed, in OrbFlow mode and in ITM mode.
C13_Stops ==
    [][/\ ~col.failed
       /\ col'.failed =>
            /\ col'.inds # <<>>
            /\ col'.inds[Len(col'.inds)] = "ProcessingFailed"
            /\ col'.calls = col'.fail_at
            /\ col'.ret = "ProcessingFailed"]_vars

\* the ITM decoder and the handler after the frames fs, each fed through itm_process
RECURSIVE FeedFrames(_, _, _, _)
FeedFrames(d, h, fs, fail_at) ==
    IF fs = <<>> THEN [d |-> d, h |-> h]
    ELSE FeedFrames(itm_process(d, content(Head(fs)), h, fail_at).d,
                    itm_process(d, content(Head(fs)), h, fail_at).h,
                    Tail(fs), fail_at)

\* the ITM decoder and the number of process calls are those that w holds
FedAs(w) ==
    /\ itm' = w.d
    /\ col'.calls = w.h.calls

\* C21: in OrbFlow mode the frames decoded in a turn of the loop reach the ITM decoder
\* in arrival order when their stream number is the configured one and not at all
\* otherwise: the decoder and the number of process calls are what the frames with
\* the configured stream number alone produce.
C21_StreamFilter ==
    [][(col.mode = "OFlow" /\ col'.reads = col.reads + 1 /\ col'.read = "Data" /\ ~panicked')
       => FedAs(FeedFrames(itm, [calls |-> col.calls, failed |-> col.failed, inds |-> <<>>,
                                 passed |-> <<>>],
                           SelectSeq(col'.frames,
                                     LAMBDA f : f.stream_number = col.stream_number),
                           col.fail_at))]_vars

\* a read with a frame of stream 2 ahead of a frame of stream 1, the decoder in sync
C21_Witness ==
    /\ col.mode = "OFlow"
    /\ Len(col.frames) = 2
    /\ col.frames[1].stream_number = 2
    /\ col.frames[2].stream_number = 1
    /\ col.calls = 4
    /\ itm.i.stats.inbytestotal = 12

\* C20: a read failing with WouldBlock or Interrupted changes neither the packet buffer
\* nor a decoder and leaves collect_data in its loop; a read failing otherwise is passed
\* to state_ind and returned; a read of no bytes gives state_ind(Reset) and the
\* return value Reset.
C20_ReadOutcomes ==
    [][col'.reads = col.reads + 1 =>
        /\ col'.read \in {"WouldBlock", "Interrupted"} =>
              /\ col'.ret = "None"
              /\ col'.running
              /\ col'.inds = <<>>
              /\ UNCHANGED <<cobs, op, oflow, itm>>
        /\ col'.read = "ConnectionReset" =>
              /\ col'.inds = <<"IoError">>
              /\ col'.ret = "IoError"
        /\ col'.read = "Zero" =>
              /\ col'.inds = <<"Reset">>
              /\ col'.ret = "Reset"]_vars

\* a read that would block while a COBS packet is half received
C20_Witness ==
    /\ col.read = "WouldBlock"
    /\ col.ret = "None"
    /\ cobs.state = "Rxing"
    /\ op # <<>>

(***************************************************************************)
(* ITM actions                                                             *)
(***************************************************************************)
\* the caller creates an iterator over a new chunk once the last one is exhausted
ItmSupply(chunk) ==
    /\ ~panicked
    /\ itm_iter = <<>>
    /\ itm_res.ret \in {"None", "ShortData"}
    /\ itm_supplied < MaxChunks
    /\ itm_supplied' = itm_supplied + 1
    /\ itm_iter' = chunk
    /\ itm_chunk' = chunk
    /\ itm_res' = [ret |-> "None", frame |-> NoFrame, consumed |-> 0]
    /\ itm_frames' = <<>>
    /\ UNCHANGED <<overflow_checks, panicked, cobs_vars, oflow_vars, itm, itm_syncs, itm_recent,
                   its, col, url>>

\* the caller calls get_frame on its iterator
ItmGetFrame ==
    /\ ~panicked
    /\ itm_chunk # <<>>
    /\ itm_res.ret \in {"None", "Ok"}
    /\ LET r == itm_get_frame(itm, itm_iter)
       IN  /\ itm' = r.d
           /\ itm_iter' = r.iter
           /\ itm_res' = [ret |-> r.ret, frame |-> r.frame,
                          consumed |-> Len(itm_iter) - Len(r.iter)]
           /\ itm_frames' = IF r.ret = "Ok" THEN Append(itm_frames, r.frame) ELSE itm_frames
           /\ itm_syncs' = IF r.ret = "Ok" /\ r.frame.frame = "Sync"
                           THEN itm_syncs + 1 ELSE itm_syncs
           /\ itm_recent' = LastN(itm_recent \o SubSeq(itm_iter, 1, Len(itm_iter) - Len(r.iter)),
                                   Len(SyncSeq))
           /\ panicked' = (r.ret = "Panic")
    /\ UNCHANGED <<overflow_checks, cobs_vars, oflow_vars, itm_chunk, itm_supplied, its, col, url>>

NextItm ==
    \/ \E chunk \in ItmChunks : ItmSupply(chunk)
    \/ ItmGetFrame

SpecItm == InitItm /\ [][NextItm]_vars

(***************************************************************************)
(* Properties of the ITM decoder                                           *)
(***************************************************************************)
\* C3: whatever state the decoder is in, an iterator over 00 00 00 00 00 80 yields at
\* most two frames; a Sync frame is returned only by the call that consumes the 0x80,
\* that call always returns Sync, and at most one other frame comes before it.
C3_SyncRecovery ==
    itm_chunk = SyncSeq =>
        /\ Len(itm_frames) <= 2
        /\ \A k \in 1..Len(itm_frames) :
              itm_frames[k].frame = "Sync" => k = Len(itm_frames) /\ itm_iter = <<>>
        /\ itm_iter = <<>> =>
              itm_frames # <<>> /\ itm_frames[Len(itm_frames)].frame = "Sync"

\* a sync sequence that met a packet in progress: its frame, then Sync
C3_Witness ==
    /\ itm_chunk = SyncSeq
    /\ itm_iter = <<>>
    /\ Len(itm_frames) = 2
    /\ itm_frames[1].frame \notin {"Sync", "TPIUSync"}
    /\ itm_frames[2].frame = "Sync"

\* C4: get_frame never faults; it returns a frame only after consuming at least one
\* byte, and ShortData only with the iterator exhausted and no frame; there is no
\* other result.
C4_GetFrameTotal ==
    /\ ~panicked
    /\ itm_res.ret \in {"None", "Ok", "ShortData"}
    /\ itm_res.ret = "Ok" => itm_res.consumed >= 1 /\ itm_res.frame.frame # "None"
    /\ itm_res.ret = "ShortData" => itm_iter = <<>> /\ itm_res.frame.frame = "None"

\* the iterator ran out in the middle of a packet
C4_Witness ==
    /\ itm_res.ret = "ShortData"
    /\ itm_res.consumed >= 1
    /\ itm.state.tag \notin {"Idle", "Unsynced"}

\* the caller, its iterator exhausted, reads the next n bytes of the stream and
\* creates an iterator over them
ItmRead(n) ==
    /\ ~panicked
    /\ itm_iter = <<>>
    /\ itm_res.ret \in {"None", "ShortData"}
    /\ itm_iter' = SubSeq(its.rest, 1, n)
    /\ itm_chunk' = SubSeq(its.rest, 1, n)
    /\ its' = [its EXCEPT !.rest = SubSeq(its.rest, n + 1, Len(its.rest))]
    /\ itm_res' = [ret |-> "None", frame |-> NoFrame, consumed |-> 0]
    /\ UNCHANGED <<overflow_checks, panicked, cobs_vars, oflow_vars, itm, itm_frames,
                   itm_syncs, itm_supplied, itm_recent, col, url>>

\* get_frame has returned r to the caller reading the stream
ItmSplitReturned(r) ==
    /\ itm' = r.d
    /\ itm_iter' = r.iter
    /\ itm_res' = [ret |-> r.ret, frame |-> r.frame, consumed |-> Len(itm_iter) - Len(r.iter)]
    /\ its' = [its EXCEPT !.fed = @ \o SubSeq(itm_iter, 1, Len(itm_iter) - Len(r.iter)),
                          !.frames = IF r.ret = "Ok" THEN Append(@, r.frame) ELSE @]
    /\ panicked' = (r.ret = "Panic")

\* the caller reading the stream calls get_frame on its iterator
ItmSplitGetFrame ==
    /\ ~panicked
    /\ itm_chunk # <<>>
    /\ itm_res.ret \in {"None", "Ok"}
    /\ ItmSplitReturned(itm_get_frame(itm, itm_iter))
    /\ UNCHANGED <<overflow_checks, cobs_vars, oflow_vars, itm_chunk, itm_frames, itm_syncs,
                   itm_supplied, itm_recent, col, url>>

NextItmSplit ==
    \/ \E n \in 1..Len(its.rest) : ItmRead(n)
    \/ ItmSplitGetFrame

SpecItmSplit == InitItmSplit /\ [][NextItmSplit]_vars

NextItmInstr ==
    \/ \E chunk \in InstrChunks : ItmSupply(chunk)
    \/ ItmGetFrame

SpecItmInstr == InitItm /\ [][NextItmInstr]_vars

\* get_frame on an iterator over the one byte tok, the decoder being in Idle after
\* its first sync
ItmHeader(tok) ==
    /\ ~panicked
    /\ itm_supplied = 1
    /\ itm_supplied' = 2
    /\ itm_chunk' = <<tok>>
    /\ LET r == itm_get_frame(itm, <<tok>>)
       IN  /\ itm' = r.d
           /\ itm_iter' = r.iter
           /\ itm_res' = [ret |-> r.ret, frame |-> r.frame, consumed |-> 1 - Len(r.iter)]
           /\ itm_frames' = IF r.ret = "Ok" THEN <<r.frame>> ELSE <<>>
           /\ panicked' = (r.ret = "Panic")
    /\ itm_recent' = LastN(itm_recent \o <<tok>>, Len(SyncSeq))
    /\ UNCHANGED <<overflow_checks, cobs_vars, oflow_vars, itm_syncs, its, col, url>>

\* get_frame on an iterator over the one byte tok that follows the header
ItmPayload(tok) ==
    /\ ~panicked
    /\ itm_supplied >= 2
    /\ itm_supplied < 2 + MaxPayload
    /\ itm_supplied' = itm_supplied + 1
    /\ itm_chunk' = Append(itm_chunk, tok)
    /\ LET r == itm_get_frame(itm, <<tok>>)
       IN  /\ itm' = r.d
           /\ itm_iter' = r.iter
           /\ itm_res' = [ret |-> r.ret, frame |-> r.frame, consumed |-> 1 - Len(r.iter)]
           /\ itm_frames' = IF r.ret = "Ok" THEN Append(itm_frames, r.frame) ELSE itm_frames
           /\ panicked' = (r.ret = "Panic")
    /\ itm_recent' = LastN(itm_recent \o <<tok>>, Len(SyncSeq))
    /\ UNCHANGED <<overflow_checks, cobs_vars, oflow_vars, itm_syncs, its, col, url>>

NextItmIdle ==
    \/ \E tok \in HeaderBytes : ItmHeader(tok)
    \/ \E tok \in PayloadBytes : ItmPayload(tok)

SpecItmIdle == InitItmIdle /\ [][NextItmIdle]_vars

NextItmGts ==
    \/ \E chunk \in GtsChunks : ItmSupply(chunk)
    \/ ItmGetFrame

SpecItmGts == InitItm /\ [][NextItmGts]_vars

NextItmSticky ==
    \/ \E chunk \in StickyChunks : ItmSupply(chunk)
    \/ ItmGetFrame

SpecItmSticky == InitItm /\ [][NextItmSticky]_vars

NextItmFixed ==
    \/ \E chunk \in FixedChunks : ItmSupply(chunk)
    \/ ItmGetFrame

SpecItmFixed == InitItm /\ [][NextItmFixed]_vars

NextItmXtn ==
    \/ \E chunk \in XtnChunks : ItmSupply(chunk)
    \/ ItmGetFrame

SpecItmXtn == InitItm /\ [][NextItmXtn]_vars

NextItmLts ==
    \/ \E chunk \in LtsChunks : ItmSupply(chunk)
    \/ ItmGetFrame

SpecItmLts == InitItm /\ [][NextItmLts]_vars

NextItmDataTrace ==
    \/ \E chunk \in DataTraceChunks : ItmSupply(chunk)
    \/ ItmGetFrame

SpecItmDataTrace == InitItm /\ [][NextItmDataTrace]_vars

\* tok is dispatched by Idle to Instrumentation::matches
InstrHdr(tok) == tok % 4 # 0 /\ (tok \div 4) % 2 = 0

\* the payload length a header announces
InstrLen(tok) == IF tok % 4 = 3 THEN 4 ELSE tok % 4

\* the bytes p as a little-endian word, as the set of its set bits
LittleEndian(p) == {b \in 0..(8 * Len(p) - 1) : (p[(b \div 8) + 1] \div Pow2(b % 8)) % 2 = 1}

\* the four bytes last consumed are the TPIU sync marker FF FF FF 7F
TpiuMarker(recent) == LastN(recent, 4) = <<255, 255, 255, 127>>

\* the frame f closes the packet at the end of the consumed bytes recent: its length
\* is the one the header announced, its address the header's plus the page register,
\* its data the payload bytes
InstrFrameOf(f, recent, page) ==
    /\ f.len \in {1, 2, 4}
    /\ Len(recent) > f.len
    /\ InstrHdr(recent[Len(recent) - f.len])
    /\ InstrLen(recent[Len(recent) - f.len]) = f.len
    /\ f.addr = ((recent[Len(recent) - f.len] \div 8) % 32) + page
    /\ f.addr <= 255
    /\ f.data = LittleEndian(LastN(recent, f.len))

\* a get_frame call whose iterator starts with hdr header bytes (1 or 0) of a packet
\* of target payload bytes, count of them already held: it returns on the last
\* payload byte and not before, with the frame (or the TPIU sync when marker allows
\* it); when the iterator ends earlier it returns ShortData and holds the payload
InstrCall(hdr, target, count, marker) ==
    IF Len(itm_iter) >= hdr + target - count
    THEN /\ itm_res'.ret = "Ok"
         /\ itm_res'.consumed = hdr + target - count
         /\ IF marker /\ TpiuMarker(itm_recent')
            THEN itm_res'.frame.frame = "TPIUSync"
            ELSE itm_res'.frame.frame = "Instrumentation"
    ELSE /\ itm_res'.ret = "ShortData"
         /\ itm'.state.tag = "Instrumentation"
         /\ itm'.state.target = target
         /\ itm'.state.count = count + Len(itm_iter) - hdr

\* get_frame calls on an iterator that starts at an Instrumentation header or inside
\* an Instrumentation packet
InstrCalls(marker) ==
    /\ (itm.state.tag = "Idle" /\ itm_iter # <<>> /\ InstrHdr(Head(itm_iter)))
          => InstrCall(1, InstrLen(Head(itm_iter)), 0, marker)
    /\ (itm.state.tag = "Instrumentation" /\ itm_iter # <<>>)
          => InstrCall(0, itm.state.target, itm.state.count, marker)

\* every Instrumentation frame returned closes the packet just consumed
InstrFrames ==
    (itm_res'.ret = "Ok" /\ itm_res'.frame.frame = "Instrumentation")
        => InstrFrameOf(itm_res'.frame, itm_recent', itm'.i.page_register)

\* C14 as stated: an Instrumentation header followed by its n payload bytes (n = tok & 3,
\* 3 meaning 4) yields exactly one frame, on the n-th payload byte, and that frame is
\* Instrumentation with addr = ((tok >> 3) & 31) + page_register <= 255, the payload
\* as little-endian data and len = n in {1, 2, 4}.
C14_AlwaysFrame ==
    [][itm_res'.ret # "None" => (InstrCalls(FALSE) /\ InstrFrames)]_vars

\* C14, amended: the same, except that a payload completing the TPIU sync marker
\* FF FF FF 7F yields TPIUSync on its last byte instead of the Instrumentation frame.
C14_Instrumentation ==
    [][itm_res'.ret # "None" => (InstrCalls(TRUE) /\ InstrFrames)]_vars

\* a frame at address 255: raw address 31 on page 224
C14_Witness ==
    /\ itm_res.ret = "Ok"
    /\ itm_res.frame.frame = "Instrumentation"
    /\ itm_res.frame.addr = 255
    /\ itm_res.frame.len = 1
    /\ itm_res.frame.data = Bits(7)
    /\ itm.i.page_register = 224

\* the values the page register takes
Pages == {32 * k : k \in 0..7}

\* tok is a single-byte Xtn header with bit 2 set, as Idle dispatches it
PageHdr(tok) == tok < 128 /\ tok % 16 = 12

\* the page a page register update selects
PageOf(tok) == 32 * ((tok \div 16) % 8)

\* a get_frame call on an iterator that starts, in Idle, with a page register update:
\* the update yields no frame and, when nothing follows it, is in force afterwards
PageCall ==
    (itm.state.tag = "Idle" /\ itm_iter # <<>> /\ PageHdr(Head(itm_iter))) =>
        IF Len(itm_iter) = 1
        THEN /\ itm_res'.ret = "ShortData"
             /\ itm'.i.page_register = PageOf(Head(itm_iter))
             /\ itm'.state.tag = "Idle"
        ELSE itm_res'.consumed >= 2

\* the page register changes only by an update among the bytes consumed or by an
\* ITM Sync, and never within the payload of an Instrumentation packet
PageChange ==
    /\ itm'.i.page_register # itm.i.page_register =>
          \/ itm_res'.ret = "Ok" /\ itm_res'.frame.frame = "Sync" /\ itm'.i.page_register = 0
          \/ \E k \in 1..itm_res'.consumed :
                PageHdr(itm_iter[k]) /\ itm'.i.page_register = PageOf(itm_iter[k])
    /\ (itm.state.tag = "Instrumentation"
          /\ itm_res'.consumed <= itm.state.target - itm.state.count)
          => itm'.i.page_register = itm.i.page_register

\* an Instrumentation frame carries the raw address of its header plus the page
\* register in force
PageOffset ==
    (itm_res'.ret = "Ok" /\ itm_res'.frame.frame = "Instrumentation") =>
        itm_res'.frame.addr =
            ((itm_recent'[Len(itm_recent') - itm_res'.frame.len] \div 8) % 32)
            + itm'.i.page_register

\* C15: a single-byte Xtn header with bit 2 set sets page_register to
\* 32 * ((tok >> 4) & 7) and yields no frame; the value offsets the addr of the
\* Instrumentation frames that follow, until the next update or ITM Sync; the page
\* register is always a multiple of 32 in 0..224.
C15_PageRegister ==
    [][/\ itm.i.page_register \in Pages
       /\ itm'.i.page_register \in Pages
       /\ itm_res'.ret # "None" => (PageCall /\ PageChange /\ PageOffset)]_vars

\* a frame of raw address 31 received on page 32
C15_Witness ==
    /\ itm_res.ret = "Ok"
    /\ itm_res.frame.frame = "Instrumentation"
    /\ itm_res.frame.addr = 63
    /\ itm.i.page_register = 32
    /\ itm_chunk = <<249, 7>>

\* the decoder and the frames received agree with the run w
SameAsItmRun(w) ==
    /\ itm = w.d
    /\ its.frames = w.frames
    /\ panicked = (w.ret = "Panic")

\* C18: the bytes consumed so far, however they were split over iterators, have
\* produced the frames, the sticky state (page register, global timestamp) and the
\* statistics that a new decoder produces from one iterator over the same bytes.
C18_Resumable ==
    SameAsItmRun(itm_get_frames(ITMDecoderNew, its.fed, <<>>))

\* a four byte Instrumentation packet on page 32, completed by a call that consumed
\* only its last payload byte
C18_Witness ==
    /\ its.rest = <<>>
    /\ its.fed = SyncSeq \o <<28, 147, 17, 34, 51, 68>>
    /\ Len(its.frames) = 2
    /\ itm_res.ret = "Ok"
    /\ itm_res.consumed = 1
    /\ itm_res.frame.frame = "Instrumentation"
    /\ itm_res.frame.addr = 50

\* C10: when the six bytes last consumed are 00 00 00 00 00 80, the call that consumed
\* the 0x80 returned Sync with the number of Sync frames so far as its count, the page
\* register is 0 and the decoder is in Idle.
C10_SyncHandling ==
    (itm_recent = SyncSeq /\ itm_res.consumed >= 1) =>
        /\ itm_res.ret = "Ok"
        /\ itm_res.frame.frame = "Sync"
        /\ itm_res.frame.count = itm_syncs
        /\ itm.i.stats.itmsync = itm_syncs
        /\ itm.i.page_register = 0
        /\ itm.state = StIdle

\* a second sync sequence, its 0x80 in a chunk of its own
C10_Witness ==
    /\ itm_recent = SyncSeq
    /\ itm_res.consumed >= 1
    /\ itm_chunk = <<128>>
    /\ itm_syncs = 2

\* the state that outlives a packet: page register, timestamps, context id length
Sticky(i) == <<i.page_register, i.timestamp, i.gtimestamp, i.context_idlen>>

\* C24: a new decoder is Unsynced. A get_frame call whose last consumed bytes are
\* FF FF FF 7F, whatever the state before, returns TPIUSync with the number of TPIU
\* syncs so far and leaves the decoder Unsynced. A call made while Unsynced returns
\* no frame, Sync or TPIUSync; unless it returns Sync the decoder stays Unsynced and
\* the page register, the timestamps and the context id length are as before.
C24_Unsynced ==
    /\ itm.state = StUnsynced
    /\ [][/\ (itm_res'.consumed >= 1 /\ LastN(itm_recent', Len(TpiuSeq)) = TpiuSeq) =>
               /\ itm_res'.ret = "Ok"
               /\ itm_res'.frame.frame = "TPIUSync"
               /\ itm_res'.frame.count = itm.i.stats.tpiusync + 1
               /\ itm'.i.stats.tpiusync = itm.i.stats.tpiusync + 1
               /\ itm'.state = StUnsynced
          /\ (itm.state = StUnsynced /\ itm_res'.consumed >= 1) =>
               /\ itm_res'.frame.frame \in {"None", "Sync", "TPIUSync"}
               /\ itm_res'.frame.frame # "Sync" =>
                      itm'.state = StUnsynced /\ Sticky(itm'.i) = Sticky(itm.i)
               /\ itm_res'.frame.frame = "Sync" => itm'.state = StIdle]_vars

\* a TPIU sync met after a sync and a change of page: the decoder is Unsynced again
C24_Witness ==
    /\ LastN(itm_recent, Len(TpiuSeq)) = TpiuSeq
    /\ itm_res.ret = "Ok"
    /\ itm_res.frame.frame = "TPIUSync"
    /\ itm.i.stats.itmsync = 1
    /\ itm.i.page_register = 32
    /\ itm.state = StUnsynced

\* tok is the Gts1 header, as Idle dispatches it
Gts1Hdr(tok) == tok = 148

\* the number of payload bytes of the packet at the head of s: up to and including the
\* first byte with bit 7 clear, 0 when s has no such byte
PayloadLen(s) ==
    IF \A k \in 1..Len(s) : s[k] >= 128 THEN 0
    ELSE CHOOSE k \in 1..Len(s) : s[k] < 128 /\ \A j \in 1..(k - 1) : s[j] >= 128

\* the number of low bits a Gts1 payload p covers
Gts1Covered(p) == IF Len(p) <= 3 THEN 7 * Len(p) ELSE 26

\* the stored global timestamp g patched by the payload p: the covered bits come
\* from the low 7 bits of each payload byte, the others stay
Gts1Patched(g, p) ==
    {b \in g : b >= Gts1Covered(p)}
        \cup {b \in 0..(Gts1Covered(p) - 1) : BitAt(p[(b \div 7) + 1], b % 7) = 1}

\* a Gts1 packet of payload p has ended: the frame and the stored value
Gts1Frame(g, p) ==
    /\ itm_res'.frame.frame = "Globaltimestamp"
    /\ itm_res'.frame.ts = Gts1Patched(g, p)
    /\ itm_res'.frame.has_wrapped = (Len(p) >= 4 /\ BitAt(p[4], 6) = 1)
    /\ itm'.i.gtimestamp = Gts1Patched(g, p)
    /\ itm'.state = StIdle

\* a get_frame call on an iterator that starts, in Idle, with a Gts1 header followed
\* by k payload bytes (k = 0: the packet does not end in this iterator)
Gts1Call(k, marker) ==
    IF k = 0
    THEN /\ itm_res'.ret = "ShortData"
         /\ itm'.i.gtimestamp = itm.i.gtimestamp
         /\ itm'.state.tag = "Gts1"
    ELSE /\ itm_res'.ret = "Ok"
         /\ itm_res'.consumed = k + 1
         /\ IF marker /\ TpiuMarker(itm_recent')
            THEN /\ itm_res'.frame.frame = "TPIUSync"
                 /\ itm'.i.gtimestamp = itm.i.gtimestamp
            ELSE Gts1Frame(itm.i.gtimestamp, SubSeq(itm_iter, 2, k + 1))

Gts1Calls(marker) ==
    (itm_res'.ret # "None" /\ itm.state.tag = "Idle" /\ itm_iter # <<>>
        /\ Gts1Hdr(Head(itm_iter)))
        => Gts1Call(PayloadLen(Tail(itm_iter)), marker)

\* C25 as stated: a Gts1 packet ends at its first payload byte with bit 7 clear; with
\* k payload bytes it replaces bits [0,7k) of the stored global timestamp (k <= 3) or
\* bits [0,26) (k >= 4) and keeps the higher bits; has_wrapped is bit 6 of the fourth
\* payload byte, false when there is none; the result is stored and returned in a
\* Globaltimestamp frame.
C25_AlwaysPatched == [][Gts1Calls(FALSE)]_vars

\* C25, amended: the same, except that a payload ending in the TPIU sync marker
\* FF FF FF 7F yields TPIUSync on its last byte and leaves the stored value as it was.
C25_Gts1Patch == [][Gts1Calls(TRUE)]_vars

\* four payload bytes over a stored value with bits 0..28 set: bits 26..28 stay
C25_Witness ==
    /\ itm_chunk = <<148, 243, 146, 208, 79>>
    /\ itm_res.ret = "Ok"
    /\ itm_res.frame.frame = "Globaltimestamp"
    /\ itm_res.frame.has_wrapped
    /\ {26, 27, 28} \subseteq itm_res.frame.ts
    /\ 2 \notin itm_res.frame.ts
    /\ itm.i.gtimestamp = itm_res.frame.ts

\* tok is a multi-byte Xtn header, as Idle dispatches it
XtnHdr(tok) == tok >= 128 /\ tok % 4 = 0 /\ BitAt(tok, 3) = 1

\* the number of payload bytes of the Xtn packet at the head of s: up to the first
\* byte with bit 7 clear and four at most, 0 when the packet does not end in s
XtnPayloadLen(s) ==
    IF PayloadLen(SubSeq(s, 1, IF Len(s) < 4 THEN Len(s) ELSE 4)) # 0
    THEN PayloadLen(SubSeq(s, 1, IF Len(s) < 4 THEN Len(s) ELSE 4))
    ELSE IF Len(s) >= 4 THEN 4 ELSE 0

\* ex of the packet with header tok and payload p: bits 0..2 from the header, seven
\* bits of each of the first three payload bytes from bit 3 on, the eight bits of
\* the fourth from bit 24 on
XtnEx(tok, p) ==
    Bits((tok \div 16) % 8)
        \cup {b \in 3..23 : (b - 3) \div 7 < Len(p) /\ BitAt(p[((b - 3) \div 7) + 1], (b - 3) % 7) = 1}
        \cup {b \in 24..31 : Len(p) >= 4 /\ BitAt(p[4], b - 24) = 1}

\* a get_frame call on an iterator that starts, in Idle, with the Xtn header tok
\* followed by k payload bytes (k = 0: the packet does not end in this iterator)
XtnCall(tok, k) ==
    IF k = 0
    THEN itm_res'.ret = "ShortData" /\ itm'.state.tag = "Xtn"
    ELSE /\ itm_res'.ret = "Ok"
         /\ itm_res'.consumed = k + 1
         /\ \/ TpiuMarker(itm_recent') /\ itm_res'.frame.frame = "TPIUSync"
            \/ /\ itm_res'.frame.frame = "Xtn"
               /\ itm_res'.frame.source = (BitAt(tok, 2) = 1)
               /\ itm_res'.frame.len = k
               /\ itm_res'.frame.ex = XtnEx(tok, SubSeq(itm_iter, 2, k + 1))

\* C26: a multi-byte Xtn packet starts from ex = (tok >> 4) & 7 and source = bit 2 of
\* its header; its first three payload bytes give their low 7 bits at bits 3, 10 and
\* 17 of ex and a fourth gives its 8 bits at bit 24; the packet ends at the first
\* payload byte with bit 7 clear and at the fourth at the latest, with the frame
\* Xtn{source, len: number of payload bytes, ex} (TPIUSync when the payload ends in
\* the TPIU sync marker).
C26_Xtn ==
    [][(itm_res'.ret # "None" /\ itm.state.tag = "Idle" /\ itm_iter # <<>>
          /\ XtnHdr(Head(itm_iter)))
       => XtnCall(Head(itm_iter), XtnPayloadLen(Tail(itm_iter)))]_vars

\* tok is a data trace header, as Idle dispatches it
DataTraceHdr(tok) == tok \in 64..191 /\ BitAt(tok, 2) = 1 /\ tok % 4 # 0

\* the subkind a data trace header selects
DataTraceKind(tok) ==
    IF tok >= 128 THEN "DataValMatch"
    ELSE IF tok % 16 = 5 THEN "Match"
    ELSE IF BitAt(tok, 3) = 0 THEN "PCMatch"
    ELSE "DataAddrMatch"

\* the frame of the data trace packet with header tok and payload p
DataTraceFrame(tok, p) ==
    CASE DataTraceKind(tok) = "Match" /\ p[1] % 2 = 1 ->
             [frame |-> "DataTraceMatch", index |-> (tok \div 16) % 4]
      [] DataTraceKind(tok) = "Match" /\ p[1] % 2 = 0 ->
             [frame |-> "DataTracePC", index |-> (tok \div 16) % 4,
              addr |-> LittleEndian(p), len |-> Len(p)]
      [] DataTraceKind(tok) = "PCMatch" ->
             [frame |-> "DataTracePC", index |-> (tok \div 16) % 4,
              addr |-> LittleEndian(p), len |-> Len(p)]
      [] DataTraceKind(tok) = "DataAddrMatch" ->
             [frame |-> "DataTraceAddr", index |-> (tok \div 16) % 4,
              daddr |-> LittleEndian(p), len |-> Len(p)]
      [] DataTraceKind(tok) = "DataValMatch" ->
             [frame |-> "DataTraceValue", index |-> (tok \div 16) % 4,
              addr |-> LittleEndian(p), len |-> Len(p), wnr |-> (BitAt(tok, 3) = 1)]

\* a get_frame call on an iterator that starts, in Idle, with the data trace header
\* tok announcing n payload bytes
DataTraceCall(tok, n, marker) ==
    IF Len(itm_iter) < 1 + n
    THEN itm_res'.ret = "ShortData" /\ itm'.state.tag = "DataTrace"
    ELSE /\ itm_res'.ret = "Ok"
         /\ itm_res'.consumed = 1 + n
         /\ IF marker /\ TpiuMarker(itm_recent')
            THEN itm_res'.frame.frame = "TPIUSync"
            ELSE itm_res'.frame = DataTraceFrame(tok, SubSeq(itm_iter, 2, 1 + n))

DataTraceCalls(marker) ==
    (itm_res'.ret # "None" /\ itm.state.tag = "Idle" /\ itm_iter # <<>>
        /\ DataTraceHdr(Head(itm_iter)))
        => DataTraceCall(Head(itm_iter), InstrLen(Head(itm_iter)), marker)

\* C27 as stated: a data trace header selects Match (01xx_0101), PCMatch (other
\* 01xx_01xx), DataAddrMatch (01xx_11xx) or DataValMatch (10xx_x1xx), index =
\* (tok >> 4) & 3, len = tok & 3 (3 meaning 4), wnr = bit 3; a Match whose payload
\* byte has bit 0 set yields DataTraceMatch{index}; otherwise the len payload bytes,
\* little-endian, yield one frame on the last of them: DataTracePC, DataTraceAddr or
\* DataTraceValue with wnr.
C27_AlwaysFrame == [][DataTraceCalls(FALSE)]_vars

\* C27, amended: the same, except that a payload completing the TPIU sync marker
\* FF FF FF 7F yields TPIUSync on its last byte instead of the data trace frame.
C27_DataTrace == [][DataTraceCalls(TRUE)]_vars

\* a write of four bytes seen by comparator 2
C27_Witness ==
    /\ itm_chunk = <<175, 1, 2, 3, 4>>
    /\ itm_res.ret = "Ok"
    /\ itm_res.frame = [frame |-> "DataTraceValue", index |-> 2,
                        addr |-> LittleEndian(<<1, 2, 3, 4>>), len |-> 4, wnr |-> TRUE]

\* tok is a multi-byte local timestamp header, as Idle dispatches it
LtsHdr(tok) == tok \in {192, 208, 224, 240}

\* the timestamp a payload p carries: the low 7 bits of its first four bytes, least
\* significant first
LtsTs(p) == {b \in 0..27 : b \div 7 < Len(p) /\ BitAt(p[(b \div 7) + 1], b % 7) = 1}

\* header bits [5:4] as a timestamp type
LtsType(tok) ==
    CASE (tok \div 16) % 4 = 0 -> "Sync"
      [] (tok \div 16) % 4 = 1 -> "TSDelayed"
      [] (tok \div 16) % 4 = 2 -> "DataDelayed"
      [] (tok \div 16) % 4 = 3 -> "BothDelayed"

\* a get_frame call on an iterator that starts, in Idle, with the local timestamp
\* header tok followed by k payload bytes (k = 0: the packet does not end here)
LtsCall(tok, k, marker) ==
    IF k = 0
    THEN itm_res'.ret = "ShortData" /\ itm'.state.tag = "Lts"
    ELSE /\ itm_res'.ret = "Ok"
         /\ itm_res'.consumed = k + 1
         /\ IF marker /\ TpiuMarker(itm_recent')
            THEN itm_res'.frame.frame = "TPIUSync"
            ELSE itm_res'.frame = [frame |-> "Timestamp", ttype |-> LtsType(tok),
                                   ts |-> LtsTs(SubSeq(itm_iter, 2, k + 1))]

LtsCalls(marker) ==
    /\ (itm_res'.ret # "None" /\ itm.state.tag = "Idle" /\ itm_iter # <<>>
          /\ LtsHdr(Head(itm_iter)))
          => LtsCall(Head(itm_iter), PayloadLen(Tail(itm_iter)), marker)
    /\ (itm_res'.ret = "Ok" /\ itm_res'.frame.frame = "Timestamp")
          => itm_res'.frame.ts \subseteq 0..27

\* C28 as stated: a multi-byte local timestamp packet ends at its first payload byte
\* with bit 7 clear; its timestamp is made of the low 7 bits of the first four payload
\* bytes at most, least significant first, later bytes being ignored, so that every
\* Timestamp.ts is below 2^28; ttype is header bits [5:4] as Sync, TSDelayed,
\* DataDelayed, BothDelayed.
C28_AlwaysTimestamp == [][LtsCalls(FALSE)]_vars

\* C28, amended: the same, except that a payload ending in the TPIU sync marker
\* FF FF FF 7F yields TPIUSync on its last byte instead of the Timestamp frame.
C28_Lts == [][LtsCalls(TRUE)]_vars

\* five payload bytes: the fifth adds nothing
C28_Witness ==
    /\ itm_chunk = <<240, 255, 255, 255, 254, 127>>
    /\ itm_res.ret = "Ok"
    /\ itm_res.frame = [frame |-> "Timestamp", ttype |-> "BothDelayed",
                        ts |-> (0..27) \ {21}]

\* the characters of a string
Chars(s) == {s[k] : k \in DOMAIN s}

\* the address part of the url: the server, localhost when none is given, followed
\* by :3402 when it holds no colon
UrlAddress ==
    IF url.server.tag = "Some"
    THEN IF ":" \in Chars(url.server.v) THEN url.server.v
         ELSE url.server.v \o <<":", "3", "4", "0", "2">>
    ELSE <<"l", "o", "c", "a", "l", "h", "o", "s", "t", ":", "3", "4", "0", "2">>

\* the protocol part of the url
UrlProtocol ==
    IF url.protocol.tag = "Some" THEN url.protocol.v
    ELSE IF url.server.tag = "Some" THEN <<"i", "t", "m">>
    ELSE <<"o", "f", "l", "o", "w">>

\* C30: with an input file calculate_url returns file://<path> whatever the server
\* and the protocol; without one it returns <protocol>://<address>, the protocol
\* being the explicit one, else itm when a server is given and oflow when not, the
\* address the server (localhost by default) with :3402 appended when it holds no
\* port separator.
C30_Url ==
    url.called =>
        url.ret = IF url.input_file.tag = "Some"
                  THEN <<"f", "i", "l", "e", ":", "/", "/">> \o url.input_file.v
                  ELSE UrlProtocol \o <<":", "/", "/">> \o UrlAddress

\* a server with its own port and no protocol: itm://address:1234
C30_Witness ==
    /\ url.called
    /\ url.input_file = None
    /\ url.protocol = None
    /\ url.ret = <<"i", "t", "m", ":", "/", "/",
                   "a", "d", "d", "r", "e", "s", "s", ":", "1", "2", "3", "4">>

\* the rows of the dispatch table in their order, as <<pattern, family>>; a byte
\* with bit 7 clear matching the Xtn row is the short form
DispatchRows ==
    <<<<<<"0","0","0","0", "0","0","0","0">>, "Padding">>,
      <<<<"0","1","1","1", "0","0","0","0">>, "Overflow">>,
      <<<<"1","0","0","1", "0","1","0","0">>, "Gts1">>,
      <<<<"1","0","1","1", "0","1","0","0">>, "Gts2">>,
      <<<<"0","?","?","?", "0","0","0","0">>, "Lts">>,
      <<<<"1","1","?","?", "0","0","0","0">>, "Lts">>,
      <<<<"?","?","?","?", "1","?","0","0">>, "Xtn">>,
      <<<<"0","0","0","0", "0","1","0","1">>, "Event">>,
      <<<<"0","1","?","?", "?","1","?","?">>, "DataTrace">>,
      <<<<"1","0","?","?", "?","1","?","?">>, "DataTrace">>,
      <<<<"0","0","0","0", "1","1","1","0">>, "Exception">>,
      <<<<"?","?","?","?", "?","0","?","?">>, "Instrumentation">>,
      <<<<"0","0","0","1", "0","1","?","1">>, "PCSample">>,
      <<<<"0","0","0","1", "1","1","0","1">>, "PMUOverflow">>>>

\* the family of the first row of the table that tok matches, Noise when there is none;
\* the Instrumentation row is for bytes that do not end in 00
TableFamily(tok) ==
    LET hit(k) == BitMatch(tok, DispatchRows[k][1])
                     /\ (DispatchRows[k][2] = "Instrumentation" => tok % 4 # 0)
    IN  IF \E k \in DOMAIN DispatchRows : hit(k)
        THEN DispatchRows[CHOOSE k \in DOMAIN DispatchRows :
                             hit(k) /\ \A j \in 1..(k - 1) : ~hit(j)][2]
        ELSE "Noise"

\* what the decoder did with the header tok met in Idle, as a family of the table
Dispatched(tok) ==
    IF itm'.state.tag # "Idle" THEN itm'.state.tag
    ELSE IF itm'.i.stats.noise = itm.i.stats.noise + 1 THEN "Noise"
    ELSE IF itm_res'.frame.frame = "Overflow" THEN "Overflow"
    ELSE IF itm'.i.stats.ts = itm.i.stats.ts + 1 THEN "Lts"
    ELSE IF tok # 0 THEN "Xtn"
    ELSE "Padding"

\* C33 as stated: every byte met in Idle enters the family of the first row of the
\* table that it matches, the rows taken top to bottom, and only a byte matching no
\* row is counted as noise.
C33_TableOrder ==
    [][(itm.state = StIdle /\ itm_supplied' = 2)
       => Dispatched(itm_chunk'[1]) = TableFamily(itm_chunk'[1])]_vars

\* C33, amended: the same, except that a byte ending in 00 that matches none of the
\* rows down to Event (x0xx_0100 other than the Gts headers, 10xx_0000) is counted as
\* noise, although 01xx_0100 and 10xx_0100 match the DataTrace rows.
C33_Dispatch ==
    [][(itm.state = StIdle /\ itm_supplied' = 2)
       => Dispatched(itm_chunk'[1]) =
             IF itm_chunk'[1] % 4 = 0
                   /\ TableFamily(itm_chunk'[1]) \in {"DataTrace", "Instrumentation", "Noise"}
             THEN "Noise"
             ELSE TableFamily(itm_chunk'[1])]_vars

\* the byte 0100_0100, which matches the DataTrace row, counted as noise
C33_Witness ==
    /\ itm_chunk = <<68>>
    /\ itm_supplied = 2
    /\ itm.state = StIdle
    /\ itm.i.stats.noise = 1
    /\ itm_res.ret = "ShortData"

\* C34: a get_frame call returns Sync only when the last six bytes the decoder has
\* received are five 0x00 and then 0x80; a decoder that has received fewer than six
\* bytes returns no Sync.
C34_SyncReceived ==
    (itm_res.ret = "Ok" /\ itm_res.frame.frame = "Sync") => itm_recent = SyncSeq

\* tok is the short form of Xtn with the source bit set: a write of the page register
PageUpdate(tok) == tok < 128 /\ tok % 16 = 12

\* the get_frame call of this step consumed exactly a page register write met in Idle
PageUpdateCall ==
    /\ itm.state = StIdle
    /\ itm_res'.consumed = 1
    /\ PageUpdate(itm_iter[1])
    /\ itm_res'.ret = "ShortData"

\* what the claim says of the frames that are not a Sync: the page register is
\* changed only by its write, the global timestamp only by a call that returns a
\* GlobalTimestamp frame, and a TPIU sync changes neither
StickyKept ==
    /\ itm'.i.page_register # itm.i.page_register =>
          \/ PageUpdateCall /\ itm'.i.page_register = 32 * ((itm_iter[1] \div 16) % 8)
          \/ itm_res'.frame.frame = "Sync"
    /\ PageUpdateCall => itm'.i.page_register = 32 * ((itm_iter[1] \div 16) % 8)
    /\ itm'.i.gtimestamp # itm.i.gtimestamp =>
          /\ itm_res'.frame.frame = "Globaltimestamp"
          /\ itm'.i.gtimestamp = itm_res'.frame.ts
    /\ itm_res'.frame.frame = "TPIUSync" =>
          /\ itm'.i.page_register = itm.i.page_register
          /\ itm'.i.gtimestamp = itm.i.gtimestamp

\* C35 as stated: the page register and the global timestamp are changed only by
\* their own packets, not by any other frame nor by a TPIU sync, and a Sync sets
\* both of them to 0.
C35_SyncResetsBoth ==
    [][itm_res'.consumed >= 1 =>
          /\ StickyKept
          /\ itm_res'.frame.frame = "Sync" =>
                itm'.i.page_register = 0 /\ itm'.i.gtimestamp = {}]_vars

\* C35, amended: the same, except that a Sync sets the page register to 0 and
\* leaves the global timestamp as it was.
C35_Sticky ==
    [][itm_res'.consumed >= 1 =>
          /\ StickyKept
          /\ itm_res'.frame.frame = "Sync" =>
                itm'.i.page_register = 0 /\ itm'.i.gtimestamp = itm.i.gtimestamp]_vars

\* a second Sync met with a global timestamp of 3: the timestamp is still 3
C35_Witness ==
    /\ itm_res.ret = "Ok"
    /\ itm_res.frame.frame = "Sync"
    /\ itm_res.frame.count = 2
    /\ itm.i.gtimestamp = {0, 1}
    /\ itm.i.page_register = 0

\* 1 when the get_frame call of this step returned a frame of the kind, else 0
Returned(kind) == IF itm_res'.ret = "Ok" /\ itm_res'.frame.frame = kind THEN 1 ELSE 0

\* the counter moves by one with each returned frame of the kind, and the frame
\* carries the new value of the counter
CountsKind(kind, before, after) ==
    /\ after = before + Returned(kind)
    /\ Returned(kind) = 1 => itm_res'.frame.count = after

\* C36: the statistics of a new decoder are zero, and every get_frame call adds the
\* number of bytes it consumed to inbytestotal, one to inpackets iff it returns a
\* frame (Sync and TPIUSync included), and one to itmsync, tpiusync or overflow iff
\* it returns a Sync, TPIUSync or Overflow frame, whose count is the new value; so
\* the k-th frame of each kind carries count k.
C36_Stats ==
    /\ itm.i.stats.inbytestotal = 0 /\ itm.i.stats.inpackets = 0
    /\ itm.i.stats.itmsync = 0 /\ itm.i.stats.tpiusync = 0 /\ itm.i.stats.overflow = 0
    /\ [][(itm_res'.ret # "None" /\ ~panicked') =>
            /\ itm'.i.stats.inbytestotal = itm.i.stats.inbytestotal + itm_res'.consumed
            /\ itm'.i.stats.inpackets =
                  itm.i.stats.inpackets + (IF itm_res'.ret = "Ok" THEN 1 ELSE 0)
            /\ CountsKind("Sync", itm.i.stats.itmsync, itm'.i.stats.itmsync)
            /\ CountsKind("TPIUSync", itm.i.stats.tpiusync, itm'.i.stats.tpiusync)
            /\ CountsKind("Overflow", itm.i.stats.overflow, itm'.i.stats.overflow)]_vars

\* the second Overflow frame, after a Sync: eight bytes and three frames so far
C36_Witness ==
    /\ itm_res.ret = "Ok"
    /\ itm_res.frame = [frame |-> "Overflow", count |-> 2]
    /\ itm.i.stats.overflow = 2
    /\ itm.i.stats.itmsync = 1
    /\ itm.i.stats.inpackets = 3
    /\ itm.i.stats.inbytestotal = 8

\* the frames handler.process is called with when the bytes arrive in one read at a
\* collector that has just started
OneRead(bytes) ==
    LET h0 == [calls |-> 0, failed |-> FALSE, inds |-> <<>>, passed |-> <<>>]
    IN  IF col.mode = "OFlow"
        THEN collect_oflow([cobs |-> CobsNew, pp |-> <<>>, oflow |-> OFlowNew,
                            itm |-> ITMDecoderNew, h |-> h0, frames |-> <<>>,
                            decoded |-> <<>>, panic |-> FALSE], bytes, col).h.passed
        ELSE itm_process(ITMDecoderNew, bytes, h0, col.fail_at).h.passed

\* C37: with a handler that always returns true, after every read the frames passed
\* to handler.process so far, in their order, are those passed when all the bytes
\* read so far arrive in one read: a packet cut by the end of a read is completed by
\* the next one, and every frame the bytes hold is passed before the next read.
C37_ReadBoundaries ==
    (col.mode \in {"OFlow", "ITM"} /\ col.fail_at = 0 /\ ~panicked)
       => col.passed = OneRead(col.stream)

\* an OrbFlow packet that arrived in two reads: its three frames have been passed
C37_Witness ==
    /\ col.mode = "OFlow"
    /\ col.fail_at = 0
    /\ col.reads = 2
    /\ col.stream = <<2, 1, 1, 1, 1, 1, 7, 128>> \o <<1, 34, 1, 35, 56, 0>>
    /\ Len(col.passed) = 3
    /\ col.passed[3] = [frame |-> "Instrumentation", addr |-> 0, data |-> {0, 1, 5}, len |-> 1]

\* tok is the header of a PC sample packet
PCSampleHdr(tok) == tok \in {21, 23}

\* tok is the header of a packet of fixed length, as Idle dispatches it
FixedHdr(tok) ==
    tok \in {14, 5, 29} \/ PCSampleHdr(tok) \/ InstrHdr(tok) \/ DataTraceHdr(tok)

\* the number of payload bytes of the packet with header tok
FixedLen(tok) ==
    IF tok = 14 THEN 2
    ELSE IF tok \in {5, 29} THEN 1
    ELSE IF tok % 4 = 3 THEN 4 ELSE tok % 4

\* the state in which the payload of the packet with header tok is awaited
FixedFamily(tok) ==
    IF tok = 14 THEN "Exception"
    ELSE IF tok = 5 THEN "Event"
    ELSE IF tok = 29 THEN "PMUOverflow"
    ELSE IF PCSampleHdr(tok) THEN "PCSample"
    ELSE IF InstrHdr(tok) THEN "Instrumentation"
    ELSE "DataTrace"

\* f is a frame of the packet with header tok and payload p
FixedFrame(f, tok, p) ==
    IF tok = 14 THEN f.frame = "Exception"
    ELSE IF tok = 5 THEN f.frame = "EventC"
    ELSE IF tok = 29 THEN f = [frame |-> "PMUOverflow", ovf |-> p[1]]
    ELSE IF PCSampleHdr(tok)
    THEN IF Len(p) = 1 THEN f = [frame |-> "PCSleep", prohibited |-> (p[1] = 255)]
         ELSE f = [frame |-> "PCSample", addr |-> LittleEndian(p)]
    ELSE IF InstrHdr(tok) THEN f.frame = "Instrumentation" /\ f.len = Len(p)
    ELSE f.frame \in {"DataTraceMatch", "DataTracePC", "DataTraceAddr", "DataTraceValue"}

\* a get_frame call on an iterator that starts with the header tok of a packet of n
\* payload bytes, the decoder being in Idle: nothing is returned while a payload byte
\* is missing; the n-th payload byte ends the call with one frame and the decoder in
\* Idle, or, when marker is set and the payload is FF FF FF 7F, with TPIUSync
FixedCall(tok, n, marker) ==
    IF Len(itm_iter) < 1 + n
    THEN /\ itm_res'.ret = "ShortData"
         /\ itm'.state.tag = FixedFamily(tok)
    ELSE /\ itm_res'.ret = "Ok"
         /\ itm_res'.consumed = 1 + n
         /\ IF marker /\ TpiuMarker(itm_recent')
            THEN itm_res'.frame.frame = "TPIUSync" /\ itm'.state = StUnsynced
            ELSE /\ FixedFrame(itm_res'.frame, tok, SubSeq(itm_iter, 2, 1 + n))
                 /\ itm'.state = StIdle

\* the get_frame calls made in Idle on a packet of fixed length
FixedCalls(marker) ==
    (itm.state = StIdle /\ itm_res'.consumed >= 1 /\ FixedHdr(itm_iter[1]))
       => FixedCall(itm_iter[1], FixedLen(itm_iter[1]), marker)

\* C38 as stated: Exception has 2 payload bytes, Event and PMUOverflow 1, PCSample 1
\* (PCSleep, prohibited iff the byte is FF) or 4 (PCSample), Instrumentation and
\* DataTrace the length of their header; the last payload byte, and no earlier one,
\* gives exactly one frame of the packet and the decoder is in Idle.
C38_AlwaysFrame == [][FixedCalls(FALSE)]_vars

\* C38, amended: the same, unless the four payload bytes of a PCSample,
\* Instrumentation or DataTrace packet are FF FF FF 7F: the frame is then TPIUSync
\* and the decoder is Unsynced.
C38_Fixed == [][FixedCalls(TRUE)]_vars

\* a PC sample of four bytes after a sync
C38_Witness ==
    /\ itm_chunk = <<23, 1, 2, 3, 4>>
    /\ itm_res.ret = "Ok"
    /\ itm_res.consumed = 5
    /\ itm_res.frame.frame = "PCSample"
    /\ itm.state = StIdle
    /\ itm.i.stats.itmsync = 1

\* the number of bytes d.state has taken is within the limit of its packet, and an
\* accumulator of a fixed length was made with a length of 1, 2 or 4
WithinLimits(st) ==
    CASE st.tag = "Instrumentation" -> st.target \in {1, 2, 4} /\ st.count < st.target
      [] st.tag = "DataTrace"       -> st.len \in {1, 2, 4} /\ st.count < st.len
                                          /\ st.dt_type # "panic"
      [] st.tag = "PCSample"        -> st.len \in {1, 4} /\ st.count < st.len
      [] st.tag = "Exception"       -> st.count < 2
      [] st.tag = "Xtn"             -> st.count <= 5 /\ st.bitcount <= 38
      [] st.tag = "Lts"             -> st.count <= 4
      [] st.tag = "Gts1"            -> st.count <= 4
      [] st.tag = "Gts2"            -> st.count <= 7
      [] OTHER                      -> TRUE

\* C39: whatever header the decoder meets in Idle and whatever bytes follow, with
\* and without overflow checks, no get_frame call panics: a fixed-length accumulator
\* has a length of 1, 2 or 4 and fewer bytes than its length, so its shift is below
\* 32; the variable-length packets stop accumulating at their limit; the panic arm of
\* DataTrace::matches is not taken; an Instrumentation address is at most 255.
C39_NoFault ==
    /\ ~panicked
    /\ itm_res.ret # "Panic"
    /\ WithinLimits(itm.state)
    /\ itm.i.page_register <= 224
    /\ (itm_res.ret = "Ok" /\ itm_res.frame.frame = "Instrumentation")
          => itm_res.frame.addr <= 255

\* an extension packet that has been given six bytes with the continuation bit, in a
\* build with overflow checks: five are counted
C39_Witness ==
    /\ overflow_checks
    /\ itm_chunk = <<136, 249, 249, 249, 249, 249, 249>>
    /\ itm.state.tag = "Xtn"
    /\ itm.state.count = 5
    /\ ~panicked

\* the length of the long packet that the bytes read so far have ended
LongLen(stream) == Len(stream) - 2

\* C40: in OrbFlow mode every packet handed to decode has at most MAX_PACKET_LEN
\* bytes, fewer than the longest encoded OrbFlow packet, and decode does not return
\* Overlong; the read that ends a packet of more than MAX_PACKET_LEN bytes hands
\* nothing to decode, the COBS decoder having counted the packet as too long; the
\* read that ends a shorter one hands it to decode whole.
C40_NoOverlong ==
    [][/\ \A k \in DOMAIN col'.decoded :
             /\ col'.decoded[k].len <= MAX_PACKET_LEN
             /\ col'.decoded[k].len < OFLOW_MAX_ENC_PACKET_LEN
             /\ col'.decoded[k].ret # "Overlong"
       /\ (col'.reads = col.reads + 1 /\ ~LongEnded(col.stream) /\ LongEnded(col'.stream)) =>
             IF LongLen(col'.stream) > MAX_PACKET_LEN
             THEN /\ col'.decoded = <<>>
                  /\ col'.frames = <<>>
                  /\ cobs'.toolong = 1
                  /\ cobs'.packets = 0
                  /\ oflow' = OFlowNew
                  /\ op' = <<>>
             ELSE /\ col'.decoded = <<[len |-> LongLen(col'.stream), ret |-> "Ok"]>>
                  /\ Len(col'.frames) = 1
                  /\ cobs'.toolong = 0
                  /\ cobs'.packets = 1]_vars

\* a packet of 8194 bytes, the longest OrbFlow allows, has ended: nothing was decoded
C40_Witness ==
    /\ LongEnded(col.stream)
    /\ LongLen(col.stream) = OFLOW_MAX_ENC_PACKET_LEN
    /\ cobs.toolong = 1
    /\ cobs.state = "Idle"
    /\ col.decoded = <<>>
    /\ oflow = OFlowNew

====
